---------------------------- MODULE Spec2Model ----------------------------
(***************************************************************************)
(* A model of the NetLogAI parsing engine (libnetlog): the severity and    *)
(* device-type taxonomies, the Lua scripting bridge (LuaEngine), the       *)
(* scripted parser adapter (LuaParser), the registry of scripted parsers   *)
(* (LuaParserRegistry), the native parsers and the parser factory.         *)
(*                                                                         *)
(* Text is a sequence of one-character strings, so that case folding,      *)
(* number conversion and pattern matching are computed character by        *)
(* character as the code does.                                             *)
(***************************************************************************)
EXTENDS Integers, Sequences, FiniteSets, TLC

(***************************************************************************)
(* Characters                                                              *)
(***************************************************************************)
UpperAlpha == <<"A", "B", "C", "D", "E", "F", "G", "H", "I", "J", "K", "L", "M",
                "N", "O", "P", "Q", "R", "S", "T", "U", "V", "W", "X", "Y", "Z">>

LowerAlpha == <<"a", "b", "c", "d", "e", "f", "g", "h", "i", "j", "k", "l", "m",
                "n", "o", "p", "q", "r", "s", "t", "u", "v", "w", "x", "y", "z">>

Digits == <<"0", "1", "2", "3", "4", "5", "6", "7", "8", "9">>

Range(seq) == {seq[i] : i \in DOMAIN seq}

IndexOf(seq, c) == CHOOSE i \in DOMAIN seq : seq[i] = c

\* std::isspace in the "C" locale
IsSpace(c) == c \in {" ", "\t", "\n", "\r", "\f"}

IsDigit(c) == c \in Range(Digits)

DigitVal(c) == IndexOf(Digits, c) - 1

\* std::tolower on one unsigned char
ToLowerChar(c) == IF c \in Range(UpperAlpha) THEN LowerAlpha[IndexOf(UpperAlpha, c)] ELSE c

\* std::transform(..., tolower) over a whole string
ToLower(s) == [i \in DOMAIN s |-> ToLowerChar(s[i])]

\* s.substr(i) with i counted from 1
Drop(s, i) == IF i > Len(s) THEN <<>> ELSE SubSeq(s, i, Len(s))

(***************************************************************************)
(* Results of calls that may throw                                         *)
(***************************************************************************)
Ok(v) == [ok |-> TRUE, v |-> v]

Throw(what) == [ok |-> FALSE, what |-> what]

(***************************************************************************)
(* std::stoi and std::to_string                                            *)
(***************************************************************************)
IntMax == 2147483647

RECURSIVE SkipSpace(_, _)
\* the index of the first character of s at or after i that is not white space
SkipSpace(s, i) == IF i <= Len(s) /\ IsSpace(s[i]) THEN SkipSpace(s, i + 1) ELSE i

RECURSIVE StoiDigits(_, _, _, _)
\* accumulates the digits of s from i on into acc (kept negative when neg), and
\* reports out_of_range when the value leaves the range of a 32-bit int
StoiDigits(s, i, neg, acc) ==
    IF i > Len(s) \/ ~IsDigit(s[i]) THEN Ok(acc)
    ELSE LET d == DigitVal(s[i])
             lim == IntMax \div 10
         IN IF neg
            THEN IF acc < -lim \/ (acc = -lim /\ d > 8) THEN Throw("out_of_range")
                 ELSE StoiDigits(s, i + 1, neg, acc * 10 - d)
            ELSE IF acc > lim \/ (acc = lim /\ d > 7) THEN Throw("out_of_range")
                 ELSE StoiDigits(s, i + 1, neg, acc * 10 + d)

\* std::stoi(s): leading white space, an optional sign, then decimal digits;
\* whatever follows the digits is ignored
Stoi(s) ==
    LET i == SkipSpace(s, 1)
        signed == i <= Len(s) /\ s[i] \in {"+", "-"}
        neg == signed /\ s[i] = "-"
        j == IF signed THEN i + 1 ELSE i
    IN IF j > Len(s) \/ ~IsDigit(s[j]) THEN Throw("invalid_argument")
       ELSE StoiDigits(s, j, neg, 0)

RECURSIVE NatToString(_)
NatToString(n) == IF n < 10 THEN <<Digits[n + 1]>>
                  ELSE NatToString(n \div 10) \o <<Digits[(n % 10) + 1]>>

\* std::to_string(int)
IntToString(n) == IF n < 0 THEN <<"-">> \o NatToString(-n) ELSE NatToString(n)

(***************************************************************************)
(* Severity (severity.hpp, severity.cpp)                                   *)
(***************************************************************************)
Emergency == 0
Alert == 1
Critical == 2
Error == 3
Warning == 4
Notice == 5
Info == 6
Debug == 7

Severity == Emergency .. Debug

\* static_cast<Severity>(n): the enumeration is stored in a std::uint8_t
CastSeverity(n) == n % 256

\* the names parse_severity compares with, in the order of its tests
SeverityNames ==
    << [name |-> <<"e", "m", "e", "r", "g", "e", "n", "c", "y">>, sev |-> Emergency],
       [name |-> <<"e", "m", "e", "r", "g">>, sev |-> Emergency],
       [name |-> <<"a", "l", "e", "r", "t">>, sev |-> Alert],
       [name |-> <<"c", "r", "i", "t", "i", "c", "a", "l">>, sev |-> Critical],
       [name |-> <<"c", "r", "i", "t">>, sev |-> Critical],
       [name |-> <<"e", "r", "r", "o", "r">>, sev |-> Error],
       [name |-> <<"e", "r", "r">>, sev |-> Error],
       [name |-> <<"w", "a", "r", "n", "i", "n", "g">>, sev |-> Warning],
       [name |-> <<"w", "a", "r", "n">>, sev |-> Warning],
       [name |-> <<"n", "o", "t", "i", "c", "e">>, sev |-> Notice],
       [name |-> <<"n", "o", "t", "e">>, sev |-> Notice],
       [name |-> <<"i", "n", "f", "o">>, sev |-> Info],
       [name |-> <<"i", "n", "f", "o", "r", "m", "a", "t", "i", "o", "n", "a", "l">>, sev |-> Info],
       [name |-> <<"d", "e", "b", "u", "g">>, sev |-> Debug] >>

\* to_string(Severity)
SeverityToString(sev) ==
    CASE sev = Emergency -> <<"e", "m", "e", "r", "g", "e", "n", "c", "y">>
      [] sev = Alert -> <<"a", "l", "e", "r", "t">>
      [] sev = Critical -> <<"c", "r", "i", "t", "i", "c", "a", "l">>
      [] sev = Error -> <<"e", "r", "r", "o", "r">>
      [] sev = Warning -> <<"w", "a", "r", "n", "i", "n", "g">>
      [] sev = Notice -> <<"n", "o", "t", "i", "c", "e">>
      [] sev = Info -> <<"i", "n", "f", "o">>
      [] sev = Debug -> <<"d", "e", "b", "u", "g">>
      [] OTHER -> <<"u", "n", "k", "n", "o", "w", "n">>

\* parse_severity(const std::string&): a name in any letter case, else std::stoi
\* of the text as given with the value checked against 0..7, else it throws
parse_severity(severity_str) ==
    LET named(lower_str) == {i \in DOMAIN SeverityNames : SeverityNames[i].name = lower_str}
        numeric(num) == IF num.ok /\ num.v >= 0 /\ num.v <= 7 THEN Ok(CastSeverity(num.v))
                        ELSE Throw("invalid_argument")
        choose(hits) == IF hits # {} THEN Ok(SeverityNames[CHOOSE i \in hits : TRUE].sev)
                        ELSE numeric(Stoi(severity_str))
    IN choose(named(ToLower(severity_str)))

\* parse_severity(std::uint8_t)
parse_severity_num(severity_num) ==
    IF severity_num > 7 THEN Throw("invalid_argument") ELSE Ok(CastSeverity(severity_num))

(***************************************************************************)
(* DeviceType (device_types.hpp, device_types.cpp)                         *)
(***************************************************************************)
DeviceType == {"Unknown", "CiscoIOS", "CiscoIOSXE", "CiscoNXOS", "CiscoASA",
               "GenericSyslog", "Custom"}

\* the names parse_device_type compares with, in the order of its tests
DeviceTypeNames ==
    << [name |-> <<"c", "i", "s", "c", "o", "-", "i", "o", "s">>, type |-> "CiscoIOS"],
       [name |-> <<"i", "o", "s">>, type |-> "CiscoIOS"],
       [name |-> <<"c", "i", "s", "c", "o", "-", "i", "o", "s", "-", "x", "e">>, type |-> "CiscoIOSXE"],
       [name |-> <<"i", "o", "s", "-", "x", "e">>, type |-> "CiscoIOSXE"],
       [name |-> <<"c", "i", "s", "c", "o", "-", "n", "x", "-", "o", "s">>, type |-> "CiscoNXOS"],
       [name |-> <<"n", "x", "o", "s">>, type |-> "CiscoNXOS"],
       [name |-> <<"n", "x", "-", "o", "s">>, type |-> "CiscoNXOS"],
       [name |-> <<"c", "i", "s", "c", "o", "-", "a", "s", "a">>, type |-> "CiscoASA"],
       [name |-> <<"a", "s", "a">>, type |-> "CiscoASA"],
       [name |-> <<"g", "e", "n", "e", "r", "i", "c", "-", "s", "y", "s", "l", "o", "g">>, type |-> "GenericSyslog"],
       [name |-> <<"s", "y", "s", "l", "o", "g">>, type |-> "GenericSyslog"],
       [name |-> <<"c", "u", "s", "t", "o", "m">>, type |-> "Custom"],
       [name |-> <<"u", "n", "k", "n", "o", "w", "n">>, type |-> "Unknown"] >>

\* to_string(DeviceType) with every device type taking the default branch
DeviceTypeToStringDefault(device_type) == <<"u", "n", "k", "n", "o", "w", "n">>

\* to_string(DeviceType)
DeviceTypeToString(device_type) ==
    CASE device_type = "Unknown" -> <<"u", "n", "k", "n", "o", "w", "n">>
      [] device_type = "CiscoIOS" -> <<"c", "i", "s", "c", "o", "-", "i", "o", "s">>
      [] device_type = "CiscoIOSXE" -> <<"c", "i", "s", "c", "o", "-", "i", "o", "s", "-", "x", "e">>
      [] device_type = "CiscoNXOS" -> <<"c", "i", "s", "c", "o", "-", "n", "x", "-", "o", "s">>
      [] device_type = "CiscoASA" -> <<"c", "i", "s", "c", "o", "-", "a", "s", "a">>
      [] device_type = "GenericSyslog" -> <<"g", "e", "n", "e", "r", "i", "c", "-", "s", "y", "s", "l", "o", "g">>
      [] device_type = "Custom" -> <<"c", "u", "s", "t", "o", "m">>
      [] OTHER -> <<"u", "n", "k", "n", "o", "w", "n">>

\* parse_device_type(const std::string&): a listed name in any letter case, else
\* it throws
parse_device_type(type_str) ==
    LET named(lower_str) == {i \in DOMAIN DeviceTypeNames : DeviceTypeNames[i].name = lower_str}
        choose(hits) == IF hits # {} THEN Ok(DeviceTypeNames[CHOOSE i \in hits : TRUE].type)
                        ELSE Throw("invalid_argument")
    IN choose(named(ToLower(type_str)))


(***************************************************************************)
(* LogEntry (log_entry.hpp)                                                *)
(***************************************************************************)
\* a point in time: the time of capture, or a time_t value
Now == [now |-> TRUE]

FromTimeT(t) == [now |-> FALSE, t |-> t]

\* LogEntry(): severity Info, device type Unknown, texts and metadata empty,
\* no process id (<<>> is std::nullopt, <<n>> holds n)
DefaultLogEntry ==
    [ timestamp |-> FromTimeT(0), severity |-> Info, message |-> <<>>,
      facility |-> <<>>, hostname |-> <<>>, process_name |-> <<>>,
      process_id |-> <<>>, device_type |-> "Unknown", raw_message |-> <<>>,
      metadata |-> <<>> ]

\* LogEntry::add_metadata: metadata_[key] = value
add_metadata(entry, key, value) ==
    [entry EXCEPT !.metadata =
        [k \in DOMAIN entry.metadata \cup {key} |->
            IF k = key THEN value ELSE entry.metadata[k]]]

\* LogEntry::is_valid
is_valid_entry(entry) == entry.message # <<>>

(***************************************************************************)
(* LogEntry as JSON (log_entry.cpp: to_json, from_json)                    *)
(***************************************************************************)
\* nlohmann::json values
JString(s) == [t |-> "string", s |-> s]

JNumber(n) == [t |-> "number", n |-> n]

JObject(o) == [t |-> "object", o |-> o]

\* std::chrono::system_clock::to_time_t of a time point made by from_time_t
to_time_t(timestamp) == timestamp.t

\* the calendar days the time points of the model fall on, counted from
\* 1970-01-01
CalendarDays ==
    << [text |-> <<"1", "9", "7", "0", "-", "0", "1", "-", "0", "1">>, day |-> 0], [text |-> <<"1", "9", "7", "0", "-", "0", "1", "-", "0", "2">>, day |-> 1] >>

\* std::gmtime: the broken-down UTC time of a time_t
gmtime(time) ==
    [ day |-> time \div 86400, hour |-> (time % 86400) \div 3600,
      min |-> (time % 3600) \div 60, sec |-> time % 60 ]

TwoDigits(n) == <<Digits[(n \div 10) + 1], Digits[(n % 10) + 1]>>

\* std::put_time(tm, "%Y-%m-%dT%H:%M:%SZ")
put_time(tm) ==
    CalendarDays[CHOOSE i \in DOMAIN CalendarDays : CalendarDays[i].day = tm.day].text
        \o <<"T">> \o TwoDigits(tm.hour) \o <<":">> \o TwoDigits(tm.min) \o <<":">>
        \o TwoDigits(tm.sec) \o <<"Z">>

\* std::get_time(&tm, "%Y-%m-%dT%H:%M:%SZ") on a text of the layout put_time
\* writes: the fields read, or the stream's failure on any other text
get_time(text) ==
    LET number(i) == DigitVal(text[i]) * 10 + DigitVal(text[i + 1])
        days == {i \in DOMAIN CalendarDays : CalendarDays[i].text = SubSeq(text, 1, 10)}
    IN IF /\ Len(text) = 20
          /\ days # {}
          /\ \A i \in {12, 13, 15, 16, 18, 19} : IsDigit(text[i])
          /\ text[11] = "T" /\ text[14] = ":" /\ text[17] = ":" /\ text[20] = "Z"
          /\ number(12) <= 23 /\ number(15) <= 59 /\ number(18) <= 60
       THEN Ok([ day |-> CalendarDays[CHOOSE i \in days : TRUE].day, hour |-> number(12),
                 min |-> number(15), sec |-> number(18) ])
       ELSE Throw("failbit")

\* std::mktime: the time_t of a broken-down time read as LOCAL time, in a
\* process whose local time is utc_offset seconds ahead of UTC
mktime(tm, utc_offset) ==
    tm.day * 86400 + tm.hour * 3600 + tm.min * 60 + tm.sec - utc_offset

\* LogEntry::to_json: timestamp, severity, message and device_type always, the
\* other keys only when the field holds something
to_json(entry) ==
    LET present == {"timestamp", "severity", "message", "device_type"}
                     \cup {k \in {"facility", "hostname", "process_name", "raw_message"} :
                              entry[k] # <<>>}
                     \cup (IF entry.process_id # <<>> THEN {"process_id"} ELSE {})
                     \cup (IF DOMAIN entry.metadata # {} THEN {"metadata"} ELSE {})
    IN [k \in present |->
           CASE k = "timestamp" -> JString(put_time(gmtime(to_time_t(entry.timestamp))))
             [] k = "severity" -> JString(SeverityToString(entry.severity))
             [] k = "device_type" -> JString(DeviceTypeToString(entry.device_type))
             [] k = "process_id" -> JNumber(entry.process_id[1])
             [] k = "metadata" -> JObject([m \in DOMAIN entry.metadata |-> JString(entry.metadata[m])])
             [] OTHER -> JString(entry[k])]

\* from_json, "Parse timestamp": the text read as local time, the default time
\* point kept when the text does not have the layout
JsonTimestamp(json, utc_offset) ==
    LET read(tm) == IF tm.ok THEN Ok(FromTimeT(mktime(tm.v, utc_offset)))
                    ELSE Ok(DefaultLogEntry.timestamp)
    IN IF "timestamp" \notin DOMAIN json THEN Ok(DefaultLogEntry.timestamp)
       ELSE IF json["timestamp"].t # "string" THEN Throw("type_error")
       ELSE read(get_time(json["timestamp"].s))

\* the body of the try block of "Parse severity"
JsonSeverityUncaught(json) ==
    IF "severity" \notin DOMAIN json THEN Ok(DefaultLogEntry.severity)
    ELSE IF json["severity"].t # "string" THEN Throw("type_error")
    ELSE parse_severity(json["severity"].s)

\* from_json, "Parse severity": catch (const std::exception&) gives Info
JsonSeverity(json) ==
    LET caught(r) == IF r.ok THEN r ELSE Ok(Info)
    IN caught(JsonSeverityUncaught(json))

\* the body of the try block of "Parse device type"
JsonDeviceTypeUncaught(json) ==
    IF "device_type" \notin DOMAIN json THEN Ok(DefaultLogEntry.device_type)
    ELSE IF json["device_type"].t # "string" THEN Throw("type_error")
    ELSE parse_device_type(json["device_type"].s)

\* from_json, "Parse device type": catch (const std::exception&) gives Unknown
JsonDeviceType(json) ==
    LET caught(r) == IF r.ok THEN r ELSE Ok("Unknown")
    IN caught(JsonDeviceTypeUncaught(json))

\* from_json, "Parse other fields" and "Parse metadata", after the three
\* conversions above: a value of another JSON type than the field's makes the
\* assignment throw nlohmann's type_error, and so does an exception that left
\* one of the conversions
JsonEntry(timestamp, severity, device_type, json) ==
    LET texts == {"message", "facility", "hostname", "process_name", "raw_message"}
        has(k) == k \in DOMAIN json
        object == has("metadata") /\ json["metadata"].t = "object"
        mistyped == \/ \E k \in texts : has(k) /\ json[k].t # "string"
                    \/ has("process_id") /\ json["process_id"].t # "number"
                    \/ object /\ \E m \in DOMAIN json["metadata"].o :
                                     json["metadata"].o[m].t # "string"
        text(k) == IF has(k) THEN json[k].s ELSE DefaultLogEntry[k]
    IN IF ~timestamp.ok \/ ~severity.ok \/ ~device_type.ok \/ mistyped
       THEN Throw("type_error")
       ELSE Ok([ timestamp |-> timestamp.v, severity |-> severity.v,
                 message |-> text("message"), facility |-> text("facility"),
                 hostname |-> text("hostname"), process_name |-> text("process_name"),
                 process_id |-> IF has("process_id") THEN <<json["process_id"].n>>
                                ELSE DefaultLogEntry.process_id,
                 device_type |-> device_type.v, raw_message |-> text("raw_message"),
                 metadata |-> IF object
                              THEN [m \in DOMAIN json["metadata"].o |-> json["metadata"].o[m].s]
                              ELSE DefaultLogEntry.metadata ])

\* LogEntry::from_json with the two catch clauses taken away
FromJsonUncaught(json, utc_offset) ==
    JsonEntry(JsonTimestamp(json, utc_offset), JsonSeverityUncaught(json),
              JsonDeviceTypeUncaught(json), json)

\* LogEntry::from_json, in a process whose local time is utc_offset seconds
\* ahead of UTC
from_json(json, utc_offset) ==
    JsonEntry(JsonTimestamp(json, utc_offset), JsonSeverity(json), JsonDeviceType(json), json)

(***************************************************************************)
(* Lua values and the C API tests LuaEngine applies to them                *)
(***************************************************************************)
LNil == [t |-> "nil"]

LBool(b) == [t |-> "boolean", b |-> b]

\* a number with an integer value
LNum(n) == [t |-> "number", n |-> n]

\* a number with one decimal: tenths / 10, tenths not a multiple of ten
LFlt(tenths) == [t |-> "number", tenths |-> tenths]

IsFloat(v) == "tenths" \in DOMAIN v

\* the conversion of a number to an integer type, which drops the fraction
Truncate(tenths) == IF tenths < 0 THEN -((-tenths) \div 10) ELSE tenths \div 10

\* the text Lua gives a number with one decimal ("%.14g")
FloatToString(tenths) ==
    LET digits(abs) == NatToString(abs \div 10) \o <<".">> \o NatToString(abs % 10)
    IN IF tenths < 0 THEN <<"-">> \o digits(-tenths) ELSE digits(tenths)

LStr(s) == [t |-> "string", s |-> s]

\* a table: a function from keys to values, a key with value nil being absent
LTable(f) == [t |-> "table", f |-> f]

LFunc(body) == [t |-> "function", body |-> body]

lua_isnil(v) == v.t = "nil"

lua_istable(v) == v.t = "table"

lua_isfunction(v) == v.t = "function"

\* lua_isstring: a string, or a number (which converts to a string)
lua_isstring(v) == v.t \in {"string", "number"}

\* lua_tostring of a value lua_isstring accepts: a number is converted to its text
lua_tostring(v) ==
    IF v.t # "number" THEN v.s
    ELSE IF IsFloat(v) THEN FloatToString(v.tenths) ELSE IntToString(v.n)

RECURSIVE TrimRight(_)
TrimRight(s) == IF s # <<>> /\ IsSpace(s[Len(s)]) THEN TrimRight(SubSeq(s, 1, Len(s) - 1)) ELSE s

\* the conversion Lua applies to a string where a number is wanted: an optional
\* sign and decimal digits, white space allowed around them
lua_stringtonumber(s) ==
    LET unsigned(body) == IF body # <<>> /\ body[1] \in {"+", "-"} THEN Drop(body, 2) ELSE body
        all_digits(digits) == digits # <<>> /\ (\A i \in DOMAIN digits : IsDigit(digits[i]))
        value(num) == IF num.ok THEN Ok(num.v) ELSE Throw("not a number")
        convert(body) == IF all_digits(unsigned(body)) THEN value(Stoi(body))
                         ELSE Throw("not a number")
    IN convert(TrimRight(Drop(s, SkipSpace(s, 1))))

\* lua_isnumber: a number, or a string that converts to one
lua_isnumber(v) == v.t = "number" \/ (v.t = "string" /\ lua_stringtonumber(v.s).ok)

\* lua_tonumber of a value lua_isnumber accepts, as the integer each caller
\* converts it to (static_cast to int, time_t or uint32_t)
lua_tonumber(v) ==
    IF v.t # "number" THEN lua_stringtonumber(v.s).v
    ELSE IF IsFloat(v) THEN Truncate(v.tenths) ELSE v.n

\* lua_toboolean: false for false and nil, true for every other value
lua_toboolean(v) == ~(v.t = "nil" \/ (v.t = "boolean" /\ ~v.b))

\* lua_getfield on a table
lua_getfield(tbl, key) == IF key \in DOMAIN tbl.f THEN tbl.f[key] ELSE LNil

(***************************************************************************)
(* The host API registered under the global table netlog                   *)
(* (LuaEngine::register_api_functions)                                     *)
(***************************************************************************)
\* LuaEngine::lua_create_log_entry
lua_create_log_entry(args) == Ok(LTable(<<>>))

\* LuaEngine::lua_parse_severity: Info for a wrong argument list; otherwise the
\* result of parse_severity, whose exception nothing here catches
lua_parse_severity(args) ==
    IF Len(args) # 1 \/ ~lua_isstring(args[1]) THEN Ok(LNum(Info))
    ELSE LET push(severity) == IF severity.ok THEN Ok(LNum(severity.v)) ELSE severity
         IN push(parse_severity(lua_tostring(args[1])))

\* LuaEngine::lua_parse_device_type: "Unknown" for a wrong argument list;
\* otherwise parse_device_type (whose exception nothing here catches) and the
\* switch that names four of the device types
lua_parse_device_type(args) ==
    IF Len(args) # 1 \/ ~lua_isstring(args[1]) THEN Ok(LStr(<<"U", "n", "k", "n", "o", "w", "n">>))
    ELSE LET push(device_type) ==
                IF ~device_type.ok THEN device_type
                ELSE Ok(LStr(CASE device_type.v = "CiscoIOS" -> <<"C", "i", "s", "c", "o", "I", "O", "S">>
                               [] device_type.v = "CiscoNXOS" -> <<"C", "i", "s", "c", "o", "N", "X", "O", "S">>
                               [] device_type.v = "CiscoASA" -> <<"C", "i", "s", "c", "o", "A", "S", "A">>
                               [] device_type.v = "GenericSyslog" -> <<"G", "e", "n", "e", "r", "i", "c", "S", "y", "s", "l", "o", "g">>
                               [] OTHER -> <<"U", "n", "k", "n", "o", "w", "n">>))
         IN push(parse_device_type(lua_tostring(args[1])))

\* a call of netlog.<fn>(args) from a script
HostCall(fn, args) ==
    CASE fn = "create_log_entry" -> lua_create_log_entry(args)
      [] fn = "parse_severity" -> lua_parse_severity(args)
      [] fn = "parse_device_type" -> lua_parse_device_type(args)


(***************************************************************************)
(* Scripts.  A script is its top-level chunk: whether it compiles, and the *)
(* statements it executes in order, each assigning a global or raising an  *)
(* error.  A function value carries its body:                              *)
(*   return v        return v                                              *)
(*   error           error("...")                                          *)
(*   find needle     return string.find(msg, needle, 1, true) ~= nil       *)
(*   message prefix  local e = netlog.create_log_entry()                   *)
(*                   e.message = prefix .. msg  return e                   *)
(*   host fn arg key local e = netlog.create_log_entry()                   *)
(*                   e[key] = netlog.fn(arg)  e.message = msg  return e    *)
(*   cases           the body chosen by the message, else the default body *)
(***************************************************************************)
\* string.find(s, needle, 1, true) ~= nil
Contains(s, needle) ==
    \E i \in 1 .. (Len(s) - Len(needle) + 1) : SubSeq(s, i, i + Len(needle) - 1) = needle

BReturn(v) == [k |-> "return", v |-> v]

BError == [k |-> "error"]

BFind(needle) == [k |-> "find", needle |-> needle]

BMessage(prefix) == [k |-> "message", prefix |-> prefix]

BHost(fn, arg, key) == [k |-> "host", fn |-> fn, arg |-> arg, key |-> key]

BCases(cases, default) == [k |-> "cases", cases |-> cases, default |-> default]

\* what a protected call leaves: a value, a Lua error, or a C++ exception that
\* leaves lua_pcall
Returned(v) == [st |-> "ok", v |-> v]

Raised == [st |-> "error"]

Escaped == [st |-> "throw"]

\* an exception thrown by a host function called from a script: a Lua built as
\* C++ catches it in lua_pcall and reports an error status; through a Lua built
\* as C it unwinds out of lua_pcall into the caller
HostThrow(build) == IF build = "cpp" THEN Raised ELSE Escaped

RECURSIVE CallBody(_, _, _)
\* the body of a script function run on its arguments
CallBody(body, args, build) ==
    CASE body.k = "return" -> Returned(body.v)
      [] body.k = "error" -> Raised
      [] body.k = "find" -> Returned(LBool(Contains(args[1].s, body.needle)))
      [] body.k = "message" ->
            Returned(LTable([key \in {"message"} |-> LStr(body.prefix \o args[1].s)]))
      [] body.k = "host" ->
            LET entry(r) == IF r.ok
                            THEN Returned(LTable([key \in {"message", body.key} |->
                                                     IF key = body.key THEN r.v ELSE args[1]]))
                            ELSE HostThrow(build)
            IN entry(HostCall(body.fn, <<body.arg>>))
      [] body.k = "cases" ->
            LET chosen(hit) == IF hit # {} THEN body.cases[CHOOSE i \in hit : TRUE].body
                               ELSE body.default
            IN CallBody(chosen({i \in DOMAIN body.cases : body.cases[i].msg = args[1].s}), args, build)

\* lua_getglobal(L_, name) followed by lua_pcall with one result: calling a
\* value that is not a function is a Lua error
lua_pcall(G, name, args, build) ==
    IF lua_isfunction(G[name]) THEN CallBody(G[name].body, args, build) ELSE Raised

GlobalNames == {"parse", "can_parse", "get_device_type", "get_parser_name",
                "get_version", "get_supported_patterns"}

\* the order in which load_script_from_string looks for the required functions
required_functions == <<"parse", "can_parse", "get_device_type", "get_parser_name">>

SSet(name, v) == [op |-> "set", name |-> name, v |-> v]

SError == [op |-> "error"]

\* assert(name == nil) at the top level of a script
SAssertNil(name) == [op |-> "assert_nil", name |-> name]

RECURSIVE RunChunk(_, _, _)
\* lua_pcall of the compiled chunk: the statements before an error have taken
\* effect on the globals when the error is raised
RunChunk(stmts, i, G) ==
    IF i > Len(stmts) THEN [st |-> "ok", G |-> G]
    ELSE IF stmts[i].op = "error" THEN [st |-> "error", G |-> G]
    ELSE IF stmts[i].op = "assert_nil"
    THEN IF lua_isnil(G[stmts[i].name]) THEN RunChunk(stmts, i + 1, G) ELSE [st |-> "error", G |-> G]
    ELSE RunChunk(stmts, i + 1, [G EXCEPT ![stmts[i].name] = stmts[i].v])

(***************************************************************************)
(* LuaEngine (lua_engine.hpp, lua_engine.cpp)                              *)
(***************************************************************************)
\* LuaEngine::initialize_lua_state: a new state whose only globals are the
\* standard libraries and the netlog table
NewLuaState == [name \in GlobalNames |-> LNil]

\* LuaEngine::LuaEngine
NewLuaEngine == [G |-> NewLuaState, script_loaded |-> FALSE, last_error |-> "", script_name |-> <<>>]

\* LuaEngine::set_error
set_error(e, error) == [e EXCEPT !.last_error = error]

\* reset that clears script_loaded_ and keeps the Lua state
ResetKeepsState(e) == [e EXCEPT !.script_loaded = FALSE]

\* LuaEngine::reset: cleanup_lua_state and initialize_lua_state
reset(e) == [e EXCEPT !.G = NewLuaState, !.script_loaded = FALSE]

\* LuaEngine::load_script_from_string; script_loaded_ is assigned on success
\* only, and the globals are those of the one state L_
load_script_from_string(e, script_content, script_name) ==
    LET named == [e EXCEPT !.script_name = script_name]
        missing(G) == {i \in DOMAIN required_functions : ~lua_isfunction(G[required_functions[i]])}
        executed(run) ==
            IF run.st # "ok"
            THEN [e |-> set_error([named EXCEPT !.G = run.G], "Failed to execute script: "), r |-> FALSE]
            ELSE IF missing(run.G) # {}
            THEN [e |-> set_error([named EXCEPT !.G = run.G], "Required function not found in script"),
                  r |-> FALSE]
            ELSE [e |-> [named EXCEPT !.G = run.G, !.script_loaded = TRUE], r |-> TRUE]
    IN IF ~script_content.syntax_ok
       THEN [e |-> set_error(named, "Failed to load script: "), r |-> FALSE]
       ELSE executed(RunChunk(script_content.stmts, 1, e.G))

\* std::filesystem::path(script_path).filename(): the last component
filename(script_path) ==
    LET slashes == {i \in DOMAIN script_path : script_path[i] = "/"}
        after(last) == Drop(script_path, last + 1)
    IN IF slashes = {} THEN script_path
       ELSE after(CHOOSE i \in slashes : \A j \in slashes : j <= i)

\* LuaEngine::load_script on a file system fs (path -> file)
load_script(e, fs, script_path) ==
    IF ~fs[script_path].is_open
    THEN [e |-> set_error(e, "Failed to open script file: "), r |-> FALSE]
    ELSE load_script_from_string([e EXCEPT !.script_name = filename(script_path)],
                                 fs[script_path].content, filename(script_path))

\* LuaEngine::get_device_type: parse_device_type is not guarded, so its
\* exception leaves the call
get_device_type(e, build) ==
    IF ~e.script_loaded THEN Ok("Unknown")
    ELSE LET result(res) ==
                IF res.st = "throw" THEN Throw("escaped")
                ELSE IF res.st # "ok" THEN Ok("Unknown")
                ELSE IF lua_isstring(res.v) THEN parse_device_type(lua_tostring(res.v))
                ELSE Ok("Unknown")
         IN result(lua_pcall(e.G, "get_device_type", <<>>, build))

\* LuaEngine::get_parser_name
get_parser_name(e, build) ==
    IF ~e.script_loaded THEN Ok(<<>>)
    ELSE LET result(res) ==
                IF res.st = "throw" THEN Throw("escaped")
                ELSE IF res.st = "ok" /\ lua_isstring(res.v) THEN Ok(lua_tostring(res.v))
                ELSE Ok(e.script_name)
         IN result(lua_pcall(e.G, "get_parser_name", <<>>, build))

\* LuaEngine::get_version
get_version(e, build) ==
    IF ~e.script_loaded THEN Ok(<<"1", ".", "0", ".", "0">>)
    ELSE LET result(res) ==
                IF res.st = "throw" THEN Throw("escaped")
                ELSE IF res.st = "ok" /\ lua_isstring(res.v) THEN Ok(lua_tostring(res.v))
                ELSE Ok(<<"1", ".", "0", ".", "0">>)
         IN result(lua_pcall(e.G, "get_version", <<>>, build))

\* LuaEngine::get_supported_patterns: the elements of the returned array that
\* are strings
get_supported_patterns(e, build) ==
    IF ~e.script_loaded THEN Ok(<<>>)
    ELSE LET texts(strings) == [i \in DOMAIN strings |-> lua_tostring(strings[i])]
             result(res) ==
                IF res.st = "throw" THEN Throw("escaped")
                ELSE IF res.st = "ok" /\ lua_istable(res.v)
                THEN Ok(texts(SelectSeq(res.v.f, lua_isstring)))
                ELSE Ok(<<>>)
         IN result(lua_pcall(e.G, "get_supported_patterns", <<>>, build))

\* LuaEngine::can_parse: lua_toboolean of whatever the script returned
can_parse(e, raw_message, build) ==
    IF ~e.script_loaded THEN Ok(FALSE)
    ELSE LET result(res) ==
                IF res.st = "throw" THEN Throw("escaped")
                ELSE IF res.st # "ok" THEN Ok(FALSE)
                ELSE Ok(lua_toboolean(res.v))
         IN result(lua_pcall(e.G, "can_parse", <<LStr(raw_message)>>, build))

\* what a parse call gives its caller: no record, a record, or an exception
None == [k |-> "none"]

Some(entry) == [k |-> "entry", entry |-> entry]

Thrown == [k |-> "throw"]

\* the fields LuaEngine::parse copies as text when lua_isstring holds
TextFields == {"message", "facility", "hostname", "process_name"}

\* the fields LuaEngine::parse copies as numbers when lua_isnumber holds
NumberFields == {"timestamp", "process_id"}

\* the severity LuaEngine::parse stores, given the table's "severity" value:
\* lua_isstring is tested first and holds for numbers too
MarshalSeverity(v) ==
    IF lua_isstring(v) THEN parse_severity(lua_tostring(v))
    ELSE IF lua_isnumber(v) THEN Ok(CastSeverity(lua_tonumber(v)))
    ELSE Ok(Info)

\* the metadata loop of LuaEngine::parse: the pairs whose value is a string
MarshalMetadata(v) ==
    IF lua_istable(v)
    THEN [key \in {x \in DOMAIN v.f : lua_isstring(v.f[x])} |-> lua_tostring(v.f[key])]
    ELSE <<>>

\* LuaEngine::parse on the table tbl the script returned
Marshal(e, tbl, raw_message, build) ==
    LET text(v) == IF lua_isstring(v) THEN lua_tostring(v) ELSE <<>>
        number(v) == IF lua_isnumber(v) THEN <<lua_tonumber(v)>> ELSE <<>>
        entry(texts, numbers, severity, device_type) ==
            IF ~severity.ok \/ ~device_type.ok THEN Thrown
            ELSE Some([ timestamp |-> IF numbers["timestamp"] # <<>>
                                      THEN FromTimeT(numbers["timestamp"][1]) ELSE Now,
                        severity |-> severity.v,
                        message |-> texts["message"],
                        facility |-> texts["facility"],
                        hostname |-> texts["hostname"],
                        process_name |-> texts["process_name"],
                        process_id |-> numbers["process_id"],
                        device_type |-> device_type.v,
                        raw_message |-> raw_message,
                        metadata |-> MarshalMetadata(lua_getfield(tbl, "metadata")) ])
    IN entry([key \in TextFields |-> text(lua_getfield(tbl, key))],
             [key \in NumberFields |-> number(lua_getfield(tbl, key))],
             MarshalSeverity(lua_getfield(tbl, "severity")),
             get_device_type(e, build))

\* LuaEngine::parse, given what the script's parse function left
ParseResult(e, res, raw_message, build) ==
    IF res.st = "throw" THEN [e |-> e, r |-> Thrown]
    ELSE IF res.st # "ok"
    THEN [e |-> set_error(e, "Script parse function failed: "), r |-> None]
    ELSE IF lua_isnil(res.v) THEN [e |-> e, r |-> None]
    ELSE IF ~lua_istable(res.v)
    THEN [e |-> set_error(e, "Parse function must return a table or nil"), r |-> None]
    ELSE [e |-> e, r |-> Marshal(e, res.v, raw_message, build)]

\* LuaEngine::parse
parse(e, raw_message, build) ==
    IF ~e.script_loaded THEN [e |-> set_error(e, "No script loaded"), r |-> None]
    ELSE ParseResult(e, lua_pcall(e.G, "parse", <<LStr(raw_message)>>, build), raw_message, build)

(***************************************************************************)
(* The value stack of L_.  Each operator gives the numbers of values an    *)
(* operation can leave on the stack above the depth at which it started:   *)
(* every lua_getglobal, lua_pushstring and lua_getfield adds one, lua_pcall*)
(* replaces the function and its arguments by one result or one error      *)
(* message, and lua_pop removes what it names.                             *)
(***************************************************************************)
\* an exception that unwinds out of lua_pcall: the function and its nargs
\* arguments stay where the caller pushed them, under what the interrupted
\* call had put above them, which the Lua build decides
Unwound(nargs) == {nargs + 1 + frame : frame \in {0, 1}}

\* LuaEngine::load_script_from_string: the error message of luaL_loadbuffer
\* or of lua_pcall is popped, and so is each global that was looked at
load_script_from_string_stack(e, script_content) ==
    LET missing(G) == {i \in DOMAIN required_functions : ~lua_isfunction(G[required_functions[i]])}
        looked(G) == IF missing(G) = {} THEN Len(required_functions)
                     ELSE CHOOSE i \in missing(G) : \A j \in missing(G) : i <= j
        executed(run) == IF run.st # "ok" THEN {1 - 1}
                         ELSE {looked(run.G) - looked(run.G)}
    IN IF ~script_content.syntax_ok THEN {1 - 1}
       ELSE executed(RunChunk(script_content.stmts, 1, e.G))

\* LuaEngine::load_script
load_script_stack(e, fs, script_path) ==
    IF ~fs[script_path].is_open THEN {0}
    ELSE load_script_from_string_stack(e, fs[script_path].content)

\* LuaEngine::get_device_type: the exception of parse_device_type leaves the
\* call before lua_pop, with the returned string on the stack
get_device_type_stack(e, build) ==
    IF ~e.script_loaded THEN {0}
    ELSE LET result(res) ==
                IF res.st = "throw" THEN Unwound(0)
                ELSE IF res.st # "ok" THEN {1 - 1}
                ELSE IF lua_isstring(res.v) /\ ~parse_device_type(lua_tostring(res.v)).ok THEN {1}
                ELSE {1 - 1}
         IN result(lua_pcall(e.G, "get_device_type", <<>>, build))

\* LuaEngine::get_parser_name, get_version and get_supported_patterns, which
\* call the global called name without arguments and pop what it left
getter_stack(e, name, build) ==
    IF ~e.script_loaded THEN {0}
    ELSE IF lua_pcall(e.G, name, <<>>, build).st = "throw" THEN Unwound(0)
    ELSE {1 - 1}

\* LuaEngine::can_parse
can_parse_stack(e, raw_message, build) ==
    IF ~e.script_loaded THEN {0}
    ELSE IF lua_pcall(e.G, "can_parse", <<LStr(raw_message)>>, build).st = "throw" THEN Unwound(1)
    ELSE {1 - 1}

\* LuaEngine::parse from the table tbl on: every field is popped after it is
\* read; the exception of parse_severity leaves with the table and the
\* severity on the stack, and what get_device_type leaves lies on the table
MarshalStack(e, tbl, build) ==
    IF ~MarshalSeverity(lua_getfield(tbl, "severity")).ok THEN {1 + 1}
    ELSE {IF device = 0 THEN 1 - 1 ELSE 1 + device : device \in get_device_type_stack(e, build)}

\* LuaEngine::parse
parse_stack(e, raw_message, build) ==
    IF ~e.script_loaded THEN {0}
    ELSE LET result(res) ==
                IF res.st = "throw" THEN Unwound(1)
                ELSE IF res.st # "ok" \/ ~lua_istable(res.v) THEN {1 - 1}
                ELSE MarshalStack(e, res.v, build)
         IN result(lua_pcall(e.G, "parse", <<LStr(raw_message)>>, build))

(***************************************************************************)
(* Inputs: scripts, files and messages                                     *)
(***************************************************************************)
Script(syntax_ok, stmts) == [syntax_ok |-> syntax_ok, stmts |-> stmts]

\* parser1 of the ParserRegistry test
ScriptParser1 ==
    Script(TRUE, << SSet("get_parser_name", LFunc(BReturn(LStr(<<"P", "a", "r", "s", "e", "r", "1">>)))),
                    SSet("get_device_type", LFunc(BReturn(LStr(<<"C", "i", "s", "c", "o", "I", "O", "S">>)))),
                    SSet("can_parse", LFunc(BFind(<<"I", "O", "S">>))),
                    SSet("parse", LFunc(BMessage(<<"I", "O", "S", ":", " ">>))) >>)

\* parser2 of the ParserRegistry test
ScriptParser2 ==
    Script(TRUE, << SSet("get_parser_name", LFunc(BReturn(LStr(<<"P", "a", "r", "s", "e", "r", "2">>)))),
                    SSet("get_device_type", LFunc(BReturn(LStr(<<"C", "i", "s", "c", "o", "N", "X", "O", "S">>)))),
                    SSet("can_parse", LFunc(BFind(<<"N", "X", "O", "S">>))),
                    SSet("parse", LFunc(BMessage(<<"N", "X", "O", "S", ":", " ">>))) >>)

\* the script of the MissingRequiredFunctions test: get_parser_name alone
ScriptIncomplete ==
    Script(TRUE, << SSet("get_parser_name", LFunc(BReturn(LStr(<<"I", "n", "c">>)))) >>)

\* the script of the LoadInvalidScript test: it does not compile
ScriptInvalid == Script(FALSE, << SSet("get_parser_name", LFunc(BReturn(LStr(<<"I", "n", "v">>)))) >>)

\* a script whose top-level code raises an error after it has defined three of
\* the required functions and get_version
ScriptPartial ==
    Script(TRUE, << SSet("get_device_type", LFunc(BReturn(LStr(<<"a", "s", "a">>)))),
                    SSet("can_parse", LFunc(BReturn(LBool(TRUE)))),
                    SSet("parse", LFunc(BReturn(LNil))),
                    SSet("get_version", LFunc(BReturn(LStr(<<"0", ".", "9">>)))),
                    SError,
                    SSet("get_parser_name", LFunc(BReturn(LStr(<<"P", "a", "r", "t">>)))) >>)

\* a complete script that refuses to run in a state in which it has run before
ScriptOnce ==
    Script(TRUE, << SAssertNil("get_version"),
                    SSet("get_parser_name", LFunc(BReturn(LStr(<<"O", "n", "c", "e">>)))),
                    SSet("get_device_type", LFunc(BReturn(LStr(<<"i", "o", "s">>)))),
                    SSet("can_parse", LFunc(BFind(<<"I", "O", "S">>))),
                    SSet("parse", LFunc(BMessage(<<"O", ":", " ">>))),
                    SSet("get_version", LFunc(BReturn(LStr(<<"2", ".", "0">>)))) >>)

Case(msg, body) == [msg |-> msg, body |-> body]

\* what the can_parse of ScriptWild returns, message by message
WildCanParse ==
    BCases(<< Case(<<"n", "i", "l">>, BReturn(LNil)),
              Case(<<"f", "a", "l", "s", "e">>, BReturn(LBool(FALSE))),
              Case(<<"n", "u", "m">>, BReturn(LNum(1))),
              Case(<<"s", "t", "r">>, BReturn(LStr(<<"n", "o">>))),
              Case(<<"t", "b", "l">>, BReturn(LTable(<<>>))),
              Case(<<"e", "r", "r">>, BError) >>,
           BReturn(LBool(TRUE)))

\* what the parse of ScriptWild returns, message by message
WildParse ==
    BCases(<< Case(<<"n", "i", "l">>, BReturn(LNil)),
              Case(<<"n", "u", "m">>, BReturn(LNum(42))),
              Case(<<"s", "t", "r">>, BReturn(LStr(<<"x">>))),
              Case(<<"f", "a", "l", "s", "e">>, BReturn(LBool(FALSE))),
              Case(<<"e", "r", "r">>, BError),
              Case(<<"t", "b", "l">>, BReturn(LTable(<<>>))),
              Case(<<"f", "u", "l", "l">>, BReturn(LTable(
                  [ timestamp |-> LNum(100), severity |-> LStr(<<"W", "A", "R", "N">>), message |-> LStr(<<"m">>),
                    facility |-> LStr(<<"F">>), hostname |-> LStr(<<"h">>), process_name |-> LStr(<<"p">>),
                    process_id |-> LNum(7), device_type |-> LStr(<<"a", "s", "a">>), raw_message |-> LStr(<<"r">>),
                    metadata |-> LTable([a |-> LStr(<<"b">>), n |-> LNum(5), t |-> LTable(<<>>)]) ]))),
              Case(<<"t", "y", "p", "e", "s">>, BReturn(LTable(
                  [ timestamp |-> LStr(<<"x">>), severity |-> LBool(TRUE), message |-> LBool(TRUE),
                    facility |-> LTable(<<>>), hostname |-> LNil, process_id |-> LStr(<<"x">>),
                    metadata |-> LStr(<<"x">>) ]))),
              Case(<<"c", "o", "e", "r", "c", "e">>, BReturn(LTable(
                  [ timestamp |-> LStr(<<"1", "2">>), severity |-> LNum(3), message |-> LNum(5),
                    process_id |-> LStr(<<"1", "2">>) ]))),
              Case(<<"s", "e", "v", "=", "b", "o", "g", "u", "s">>, BReturn(LTable([severity |-> LStr(<<"b", "o", "g", "u", "s">>), message |-> LStr(<<"m">>)]))),
              Case(<<"s", "e", "v", "=", "9">>, BReturn(LTable([severity |-> LNum(9), message |-> LStr(<<"m">>)]))),
              Case(<<"s", "e", "v", "=", "7", ".", "5">>, BReturn(LTable([severity |-> LFlt(75), message |-> LStr(<<"m">>)]))),
              Case(<<"s", "e", "v", "=", "-", "0", ".", "5">>, BReturn(LTable([severity |-> LFlt(-5), message |-> LStr(<<"m">>)]))),
              Case(<<"s", "e", "v", "=", "-", "1">>, BReturn(LTable([severity |-> LNum(-1), message |-> LStr(<<"m">>)]))),
              Case(<<"a", "p", "i", ":", "e", "r", "r">>, BHost("parse_severity", LStr(<<"e", "r", "r">>), "severity")),
              Case(<<"a", "p", "i", ":", "b", "o", "g", "u", "s">>, BHost("parse_severity", LStr(<<"b", "o", "g", "u", "s">>), "severity")),
              Case(<<"d", "e", "v", ":", "i", "o", "s", "-", "x", "e">>, BHost("parse_device_type", LStr(<<"i", "o", "s", "-", "x", "e">>), "facility")),
              Case(<<"d", "e", "v", ":", "b", "o", "g", "u", "s">>, BHost("parse_device_type", LStr(<<"b", "o", "g", "u", "s">>), "facility")) >>,
           BMessage(<<"W", ":", " ">>))

\* a complete script whose functions return every kind of value
ScriptWild ==
    Script(TRUE, << SSet("get_parser_name", LFunc(BReturn(LStr(<<"W", "i", "l", "d">>)))),
                    SSet("get_device_type", LFunc(BReturn(LStr(<<"n", "x", "o", "s">>)))),
                    SSet("get_supported_patterns", LFunc(BReturn(LTable(<<LStr(<<"W", ".", "*">>), LNum(5), LNil>>)))),
                    SSet("can_parse", LFunc(WildCanParse)),
                    SSet("parse", LFunc(WildParse)) >>)

\* the name each script is loaded under from a string
InlineName(script) ==
    CASE script = ScriptParser1 -> <<"p", "1">>
      [] script = ScriptParser2 -> <<"p", "2">>
      [] script = ScriptWild -> <<"w", "i", "l", "d">>
      [] OTHER -> <<"i", "n", "l", "i", "n", "e", "_", "s", "c", "r", "i", "p", "t">>

NoFile == [is_open |-> FALSE]

File(content) == [is_open |-> TRUE, content |-> content]

PathParser1 == <<"t", "/", "p", "a", "r", "s", "e", "r", "1", ".", "n", "l", "p">>
PathParser2 == <<"t", "/", "p", "a", "r", "s", "e", "r", "2", ".", "n", "l", "p">>
PathIncomplete == <<"t", "/", "i", "n", "c", ".", "n", "l", "p">>
PathInvalid == <<"t", "/", "b", "a", "d", ".", "n", "l", "p">>
PathNone == <<"t", "/", "n", "o", "n", "e", ".", "n", "l", "p">>
PathCopy1 == <<"t", "/", "c", "o", "p", "y", "1", ".", "n", "l", "p">>

Paths == {PathParser1, PathParser2, PathIncomplete, PathInvalid, PathNone, PathCopy1}

\* the files on disk
Files == [path \in Paths |->
            CASE path \in {PathParser1, PathCopy1} -> File(ScriptParser1)
              [] path = PathParser2 -> File(ScriptParser2)
              [] path = PathIncomplete -> File(ScriptIncomplete)
              [] path = PathInvalid -> File(ScriptInvalid)
              [] OTHER -> NoFile]

\* the messages of the ParserRegistry test, shortened
MsgIOS == <<"a", "n", " ", "I", "O", "S", " ", "m">>
MsgNXOS == <<"a", "n", " ", "N", "X", "O", "S", " ", "m">>
MsgOther == <<"o", "t", "h", "e", "r">>

\* the messages given to the parse of a scripted parser
ParseMessages == {MsgIOS, MsgOther} \cup {WildParse.cases[i].msg : i \in DOMAIN WildParse.cases}

\* the messages given to the can_parse of a scripted parser
CanParseMessages == {MsgIOS, MsgOther} \cup {WildCanParse.cases[i].msg : i \in DOMAIN WildCanParse.cases}

\* the scripts and the files given to a LuaEngine used directly
EngineScripts == {ScriptIncomplete, ScriptPartial, ScriptWild}

EnginePaths == {PathParser1, PathInvalid, PathNone}

\* the texts scripts hand to netlog.parse_severity and netlog.parse_device_type
HostTexts ==
    { <<"e", "r", "r", "o", "r">>, <<"E", "R", "R">>, <<"I", "n", "f", "o", "r", "m", "a", "t", "i", "o", "n", "a", "l">>, <<"5">>, <<" ", "5">>, <<"3", "a", "b", "c">>, <<"8">>, <<"-", "1">>, <<>>, <<"b", "o", "g", "u", "s">>,
      <<"w", "a", "r", "n", "i", "n", "g">>, <<"0">>, <<"7">>, <<"0", "7">>, <<"9", "9", "9", "9", "9", "9", "9", "9", "9", "9">>, <<"d", "e", "b", "u", "g">>,
      <<"n", "x", "o", "s">>, <<"i", "o", "s", "-", "x", "e">>, <<"c", "u", "s", "t", "o", "m">>, <<"c", "i", "s", "c", "o", "-", "i", "o", "s">>,
      <<"i", "o", "s">>, <<"I", "O", "S", "-", "X", "E">>, <<"c", "i", "s", "c", "o", "-", "n", "x", "-", "o", "s">>, <<"a", "s", "a">>, <<"s", "y", "s", "l", "o", "g">>, <<"C", "u", "s", "t", "o", "m">>, <<"u", "n", "k", "n", "o", "w", "n">>, <<"C", "i", "s", "c", "o", "I", "O", "S">> }

\* the arguments scripts hand to the host functions
HostArgs == {<<LStr(text)>> : text \in HostTexts} \cup {<<>>, <<LNum(9)>>, <<LNil>>, <<LStr(<<"e", "r", "r">>), LStr(<<"x">>)>>}

\* the lines given to the native parsers and to the factory
NativeMessages ==
    { <<"*", "M", "a", "r", " ", "1", " ", "0", "0", ":", "0", "0", ":", "0", "1", ":", " ", "%", "L", "I", "N", "K", "-", "3", "-", "U", "P", "D", "O", "W", "N", ":", " ", "u", "p">>,
      <<"<", "1", "8", "9", ">", "1", "2", ":", " ", "%", "S", "Y", "S", "-", "5", "-", "C", "O", "N", "F", "I", "G", "_", "I", ":", " ", "c", "f", "g">>,
      <<"r", "1", " ", "%", "O", "S", "P", "F", "-", "9", "-", "A", "D", "J", ":", " ", "n", "b", "r">>,
      <<"%", "S", "E", "C", "-", "9", "9", "9", "9", "9", "9", "9", "9", "9", "9", "9", "-", "X", ":", " ", "y">>,
      <<"%", "B", "G", "P", "-", "5", "-", "A", "D", "J">>,
      <<"<", "3", "4", ">", "O", "c", "t", " ", "1", "1", " ", "2", "2", ":", "1", "4", ":", "1", "5", " ", "h", "o", "s", "t", " ", "s", "u", ":", " ", "f", "a", "i", "l">>,
      <<"<", "1", "6", "5", ">", "1", " ", "2", "0", "0", "3", "-", "1", "0", "-", "1", "1", "T", "2", "2", ":", "1", "4", ":", "1", "5", "Z", " ", "h", " ", "a", "p", "p", " ", "1", "2", "3", "4", " ", "I", "D", "4", "7", " ", "-", " ", "m", "s", "g">>,
      <<"<", "1", "3", ">", "h", "e", "l", "l", "o">>,
      <<"<", "9", "9", "9", "9", "9", "9", "9", "9", "9", "9", "9", ">", "x">>,
      <<"2", "0", "2", "4", " ", "J", "a", "n", " ", "1", " ", "1", "0", ":", "0", "0", ":", "0", "0", " ", "s", "w", " ", "%", "N", "X", "O", "S", "-", "2", "-", "X", ":", " ", "y">>,
      <<"%", "A", "S", "A", "-", "6", "-", "3", "0", "2", "0", "1", "3", ":", " ", "B", "u", "i", "l", "t", " ", "i", "n", "b", "o", "u", "n", "d", " ", "T", "C", "P">>,
      <<"T", "e", "a", "r", "d", "o", "w", "n", " ", "U", "D", "P", " ", "x">>,
      <<"h", "e", "l", "l", "o", " ", "w", "o", "r", "l", "d">>,
      <<>>,
      <<"<", "1", "3", ">", "a", "n", " ", "I", "O", "S", " ", "m", " ", "%", "A", "S", "A", "-">>,
      <<"<", "5", ">", "a", "n", " ", "I", "O", "S", " ", "m">>,
      MsgIOS }

\* the lines given to a parser through the BaseParser interface
ParserMessages == NativeMessages \cup ParseMessages \cup CanParseMessages

\* the messages given to a registry
RegistryMessages == {MsgIOS, MsgNXOS, MsgOther, <<"I", "O", "S", " ", "a", "n", "d", " ", "N", "X", "O", "S">>}

\* the names parsers are registered under: <<>> is the default argument, for
\* which the script's own name is taken
RegistryNames == {<<>>, <<"x">>}

(***************************************************************************)
(* std::regex (ECMAScript grammar) and std::regex_search                   *)
(***************************************************************************)
\* a character class: the characters listed in chars, the word characters
\* when w, the digits when d, the white space when s; negated when neg
Class(chars, w, d, s, neg) ==
    [k |-> "chr", chars |-> chars, w |-> w, d |-> d, s |-> s, neg |-> neg]

Lit(c) == Class({c}, FALSE, FALSE, FALSE, FALSE)

\* \w, \d, \s, \S, [A-Z_] and . (any character but a line terminator)
ClsW == Class({}, TRUE, FALSE, FALSE, FALSE)

ClsD == Class({}, FALSE, TRUE, FALSE, FALSE)

ClsS == Class({}, FALSE, FALSE, TRUE, FALSE)

ClsNotS == Class({}, FALSE, FALSE, TRUE, TRUE)

ClsUpper == Class(Range(UpperAlpha) \cup {"_"}, FALSE, FALSE, FALSE, FALSE)

ClsAny == Class({"\n", "\r"}, FALSE, FALSE, FALSE, TRUE)

IsWord(c) == c \in Range(UpperAlpha) \cup Range(LowerAlpha) \cup Range(Digits) \cup {"_"}

InClass(c, cls) ==
    cls.neg # ( \/ c \in cls.chars
                \/ cls.w /\ IsWord(c)
                \/ cls.d /\ IsDigit(c)
                \/ cls.s /\ IsSpace(c) )

\* the pieces of a pattern: a sequence, alternatives, a quantifier x{min,max}
\* (max < 0: unbounded; greedy or lazy), a capture group and the assertion ^
Cat(nodes) == [k |-> "cat", nodes |-> nodes]

Alt(nodes) == [k |-> "alt", nodes |-> nodes]

Rep(node, min, max, greedy) == [k |-> "rep", node |-> node, min |-> min, max |-> max, greedy |-> greedy]

Plus(node) == Rep(node, 1, -1, TRUE)

Star(node) == Rep(node, 0, -1, TRUE)

Opt(node) == Rep(node, 0, 1, TRUE)

Grp(n, node) == [k |-> "grp", n |-> n, node |-> node]

Bol == [k |-> "bol"]

\* the literal text as a pattern
Text(s) == Cat([i \in DOMAIN s |-> Lit(s[i])])

NoMatch == [ok |-> FALSE]

\* the number of characters of s from position i on that belong to cls
Run(cls, s, i) ==
    LET fits(n) == \A j \in 0..(n - 1) : InClass(s[i + j], cls)
    IN CHOOSE n \in 0..(Len(s) - i + 1) : fits(n) /\ (n = Len(s) - i + 1 \/ ~InClass(s[i + n], cls))

\* the numbers of repetitions a quantifier over a character class can take from i
Counts(piece, s, i) ==
    LET most(run) == IF piece.max >= 0 /\ piece.max < run THEN piece.max ELSE run
    IN piece.min..most(Run(piece.node, s, i))

RECURSIVE EndsOf(_, _, _)
RECURSIVE Reach(_, _, _, _)
RECURSIVE RepEnds(_, _, _, _)
\* the positions at which a match of piece that starts at position i can end
EndsOf(piece, s, i) ==
    CASE piece.k = "chr" -> IF i <= Len(s) /\ InClass(s[i], piece) THEN {i + 1} ELSE {}
      [] piece.k = "bol" -> IF i = 1 THEN {i} ELSE {}
      [] piece.k = "cat" -> Reach(piece.nodes, 1, s, {i})
      [] piece.k = "alt" -> UNION {EndsOf(piece.nodes[a], s, i) : a \in DOMAIN piece.nodes}
      [] piece.k = "grp" -> EndsOf(piece.node, s, i)
      [] piece.k = "end" -> {i}
      [] piece.k = "moved" -> IF i > piece.from THEN {i} ELSE {}
      [] piece.k = "rep" ->
            IF piece.node.k = "chr" THEN {i + n : n \in Counts(piece, s, i)}
            ELSE RepEnds(piece, 0, s, {i})

\* the positions at which a match of the pieces todo[k], todo[k + 1], ... one
\* after the other can end when it starts at one of the positions from
Reach(todo, k, s, from) ==
    IF k > Len(todo) \/ from = {} THEN from
    ELSE Reach(todo, k + 1, s, UNION {EndsOf(todo[k], s, i) : i \in from})

\* the positions at which count or more repetitions of piece.node can end,
\* given the positions from at which count repetitions end; a repetition
\* that matches nothing is not taken
RepEnds(piece, count, s, from) ==
    LET here == IF count >= piece.min THEN from ELSE {}
        next == UNION {EndsOf(piece.node, s, i) \ {i} : i \in from}
    IN IF from = {} \/ count = piece.max THEN here
       ELSE here \cup RepEnds(piece, count + 1, s, next)

\* the pieces todo can be matched one after the other from position i
CanMatch(todo, s, i) == Reach(todo, 1, s, {i}) # {}

RECURSIVE MatchAt(_, _, _, _)
\* the backtracking matcher of the ECMAScript grammar: of the ways of matching
\* the pieces of todo one after the other on s from position i, the first in
\* the order of priority (an earlier alternative first, a greedy quantifier
\* as often as possible, a lazy one as seldom as possible); at each choice it
\* takes the first option from which the rest can still be matched. caps holds
\* the span <<first, past-the-last>> of each capture group. CanMatch(todo, s, i)
\* holds on entry.
MatchAt(todo, s, i, caps) ==
    IF todo = <<>> THEN [ok |-> TRUE, i |-> i, caps |-> caps]
    ELSE LET piece == Head(todo)
             rest == Tail(todo)
         IN CASE piece.k = "chr" -> MatchAt(rest, s, i + 1, caps)
              [] piece.k \in {"bol", "moved"} -> MatchAt(rest, s, i, caps)
              [] piece.k = "cat" -> MatchAt(piece.nodes \o rest, s, i, caps)
              [] piece.k = "alt" ->
                    LET first == CHOOSE a \in DOMAIN piece.nodes :
                                    /\ CanMatch(<<piece.nodes[a]>> \o rest, s, i)
                                    /\ \A b \in 1..(a - 1) : ~CanMatch(<<piece.nodes[b]>> \o rest, s, i)
                    IN MatchAt(<<piece.nodes[first]>> \o rest, s, i, caps)
              [] piece.k = "grp" ->
                    MatchAt(<<piece.node, [k |-> "end", n |-> piece.n, from |-> i]>> \o rest, s, i, caps)
              [] piece.k = "end" -> MatchAt(rest, s, i, [caps EXCEPT ![piece.n] = <<piece.from, i>>])
              [] piece.k = "rep" ->
                    IF piece.node.k = "chr"
                    THEN LET fit == {n \in Counts(piece, s, i) : CanMatch(rest, s, i + n)}
                             taken == CHOOSE n \in fit :
                                         \A m \in fit : IF piece.greedy THEN m <= n ELSE n <= m
                         IN MatchAt(rest, s, i + taken, caps)
                    ELSE LET again == << piece.node, [k |-> "moved", from |-> i],
                                         Rep(piece.node, IF piece.min > 0 THEN piece.min - 1 ELSE 0,
                                             IF piece.max > 0 THEN piece.max - 1 ELSE piece.max,
                                             piece.greedy) >> \o rest
                             more == piece.max # 0 /\ CanMatch(again, s, i)
                             stop == piece.min = 0 /\ CanMatch(rest, s, i)
                         IN IF more /\ (piece.greedy \/ ~stop) THEN MatchAt(again, s, i, caps)
                            ELSE MatchAt(rest, s, i, caps)

\* a compiled std::regex with groups capture groups
Regex(groups, node) == [groups |-> groups, node |-> node]

\* std::regex_search(s, match, re): the first match of the leftmost position
\* at which re matches
regex_search(re, s) ==
    LET starts == {i \in 1..(Len(s) + 1) : CanMatch(<<re.node>>, s, i)}
        found(from, m) == [ok |-> TRUE, from |-> from, i |-> m.i, caps |-> m.caps]
        at(i) == found(i, MatchAt(<<re.node>>, s, i, [n \in 1..re.groups |-> <<1, 1>>]))
    IN IF starts = {} THEN NoMatch
       ELSE at(CHOOSE i \in starts : \A j \in starts : i <= j)

\* std::regex_search(s, re): whether re matches somewhere in s
regex_found(re, s) == \E i \in 1..(Len(s) + 1) : CanMatch(<<re.node>>, s, i)

\* match[n].str()
Sub(s, m, n) == SubSeq(s, m.caps[n][1], m.caps[n][2] - 1)

(***************************************************************************)
(* BaseParser (base_parser.cpp)                                            *)
(***************************************************************************)
\* the time that std::get_time and std::mktime derive from the text of a
\* timestamp (BaseParser::parse_timestamp, CiscoIOSParser::parse_cisco_timestamp):
\* kept as the text it is derived from
TimeFromText(text) == [now |-> FALSE, text |-> text]

\* BaseParser::create_log_entry without the stamp of the raw message
CreateLogEntryUnstamped(device_type, timestamp, severity, message, raw_message) ==
    [DefaultLogEntry EXCEPT !.timestamp = timestamp, !.severity = severity, !.message = message,
                            !.device_type = device_type]

\* BaseParser::create_log_entry for a parser whose get_device_type() is device_type
create_log_entry(device_type, timestamp, severity, message, raw_message) ==
    [DefaultLogEntry EXCEPT !.timestamp = timestamp, !.severity = severity, !.message = message,
                            !.device_type = device_type, !.raw_message = raw_message]

\* \w+[\w\.-]*
HostnameText == Cat(<<Plus(ClsW), Star(Class({".", "-"}, TRUE, FALSE, FALSE, FALSE))>>)

\* ^(\w+[\w\.-]*)\s+ , \s(\w+[\w\.-]*)\s+%\w+ and <\d+>(\w+[\w\.-]*)\s
hostname_patterns ==
    << Regex(1, Cat(<<Bol, Grp(1, HostnameText), Plus(ClsS)>>)),
       Regex(1, Cat(<<ClsS, Grp(1, HostnameText), Plus(ClsS), Lit("%"), Plus(ClsW)>>)),
       Regex(1, Cat(<<Lit("<"), Plus(ClsD), Lit(">"), Grp(1, HostnameText), ClsS>>)) >>

RECURSIVE HostnameFrom(_, _)
\* the loop of BaseParser::extract_hostname from the k-th pattern on
HostnameFrom(message, k) ==
    IF k > Len(hostname_patterns) THEN <<>>
    ELSE LET pick(m) == IF m.ok /\ Len(Sub(message, m, 1)) > 1 /\ " " \notin Range(Sub(message, m, 1))
                        THEN Sub(message, m, 1)
                        ELSE HostnameFrom(message, k + 1)
         IN pick(regex_search(hostname_patterns[k], message))

\* BaseParser::extract_hostname
extract_hostname(message) == HostnameFrom(message, 1)

\* BaseParser::clean_message: the text without the white space around it and
\* without control characters other than tab and line feed
clean_message(message) ==
    LET blank(c) == c \in {" ", "\t", "\r", "\n"}
        inner == {i \in DOMAIN message : ~blank(message[i])}
        first == CHOOSE i \in inner : \A j \in inner : i <= j
        last == CHOOSE i \in inner : \A j \in inner : j <= i
    IN IF inner = {} THEN <<>>
       ELSE SelectSeq(SubSeq(message, first, last), LAMBDA c : c \notin {"\r", "\f"})

(***************************************************************************)
(* CiscoIOSParser (cisco_ios_parser.cpp)                                   *)
(***************************************************************************)
\* \w+\s+\d+\s+\d+:\d+:\d+
MonthDayTime ==
    Cat(<<Plus(ClsW), Plus(ClsS), Plus(ClsD), Plus(ClsS),
          Plus(ClsD), Lit(":"), Plus(ClsD), Lit(":"), Plus(ClsD)>>)

\* (?:\.\d+)?
Fraction == Opt(Cat(<<Lit("."), Plus(ClsD)>>))

\* %([A-Z_]+)-(\d+)-([A-Z_]+) with its groups numbered from n
MessageId(n) ==
    Cat(<<Lit("%"), Grp(n, Plus(ClsUpper)), Lit("-"), Grp(n + 1, Plus(ClsD)), Lit("-"),
          Grp(n + 2, Plus(ClsUpper))>>)

\* \*?(\w+\s+\d+\s+\d+:\d+:\d+(?:\.\d+)?)\s*:\s*%([A-Z_]+)-(\d+)-([A-Z_]+):\s*(.+)
standard_pattern_ ==
    Regex(5, Cat(<<Opt(Lit("*")), Grp(1, Cat(<<MonthDayTime, Fraction>>)), Star(ClsS), Lit(":"),
                   Star(ClsS), MessageId(2), Lit(":"), Star(ClsS), Grp(5, Plus(ClsAny))>>))

\* <(\d+)>(.+?):\s*%([A-Z_]+)-(\d+)-([A-Z_]+):\s*(.+)
ios_priority_pattern_ ==
    Regex(6, Cat(<<Lit("<"), Grp(1, Plus(ClsD)), Lit(">"), Grp(2, Rep(ClsAny, 1, -1, FALSE)),
                   Lit(":"), Star(ClsS), MessageId(3), Lit(":"), Star(ClsS), Grp(6, Plus(ClsAny))>>))

\* %([A-Z_]+)-(\d+)-([A-Z_]+)
message_id_pattern_ == Regex(3, MessageId(1))

\* \*?(\w+\s+\d+\s+\d+:\d+:\d+(?:\.\d+)?|\d+:\d+:\d+(?:\.\d+)?|\w+\s+\d+\s+\d+\s+\d+:\d+:\d+)
timestamp_pattern_ ==
    Regex(1, Cat(<<Opt(Lit("*")),
                   Grp(1, Alt(<<Cat(<<MonthDayTime, Fraction>>),
                                Cat(<<Plus(ClsD), Lit(":"), Plus(ClsD), Lit(":"), Plus(ClsD), Fraction>>),
                                Cat(<<Plus(ClsW), Plus(ClsS), Plus(ClsD), Plus(ClsS), Plus(ClsD), Plus(ClsS),
                                      Plus(ClsD), Lit(":"), Plus(ClsD), Lit(":"), Plus(ClsD)>>)>>))>>))

\* %[A-Z_]+-\d+-[A-Z_]+: , \*\w+\s+\d+\s+\d+:\d+:\d+ ,
\* %LINEPROTO-|%LINK-|%BGP-|%OSPF- and %SYS-|%CONFIG_I-|%SEC-
ios_detection_patterns_ ==
    << Regex(0, Cat(<<Lit("%"), Plus(ClsUpper), Lit("-"), Plus(ClsD), Lit("-"), Plus(ClsUpper), Lit(":")>>)),
       Regex(0, Cat(<<Lit("*"), MonthDayTime>>)),
       Regex(0, Alt(<<Text(<<"%", "L", "I", "N", "E", "P", "R", "O", "T", "O", "-">>), Text(<<"%", "L", "I", "N", "K", "-">>), Text(<<"%", "B", "G", "P", "-">>), Text(<<"%", "O", "S", "P", "F", "-">>)>>)),
       Regex(0, Alt(<<Text(<<"%", "S", "Y", "S", "-">>), Text(<<"%", "C", "O", "N", "F", "I", "G", "_", "I", "-">>), Text(<<"%", "S", "E", "C", "-">>)>>)) >>

\* map_cisco_severity with every digit taking the default
MapCiscoSeverityDefault(cisco_severity) == Info

\* CiscoIOSParser::map_cisco_severity
map_cisco_severity(cisco_severity) ==
    IF cisco_severity \in 0..7 THEN cisco_severity ELSE Info

\* CiscoIOSParser::parse_cisco_timestamp
parse_cisco_timestamp(timestamp_str) == TimeFromText(timestamp_str)

\* the part the three formats of the Cisco IOS parser share: the record made
\* from the timestamp, the facility, the severity digits, the mnemonic and the
\* message content; std::stoi is not guarded
IosEntry(message, timestamp, facility, severity_str, mnemonic, msg_content) ==
    LET hostname(entry, name) == IF name # <<>> THEN [entry EXCEPT !.hostname = name] ELSE entry
        build(cisco_severity) ==
            IF ~cisco_severity.ok THEN Thrown
            ELSE Some(hostname(
                    add_metadata(
                        add_metadata(
                            [create_log_entry("CiscoIOS", timestamp, map_cisco_severity(cisco_severity.v),
                                              msg_content, message) EXCEPT !.facility = facility],
                            "mnemonic", mnemonic),
                        "cisco_severity", severity_str),
                    extract_hostname(message)))
    IN build(Stoi(severity_str))

\* CiscoIOSParser::parse_standard_format
parse_standard_format(message) ==
    LET entry(m) ==
            IF ~m.ok THEN None
            ELSE IosEntry(message, parse_cisco_timestamp(Sub(message, m, 1)), Sub(message, m, 2),
                          Sub(message, m, 3), Sub(message, m, 4), Sub(message, m, 5))
    IN entry(regex_search(standard_pattern_, message))

\* CiscoIOSParser::parse_priority_format
parse_priority_format(message) ==
    LET priority(r, priority_str) ==
            IF r.k = "entry" THEN Some(add_metadata(r.entry, "syslog_priority", priority_str)) ELSE r
        entry(m) ==
            IF ~m.ok THEN None
            ELSE priority(IosEntry(message, parse_cisco_timestamp(Sub(message, m, 2)), Sub(message, m, 3),
                                   Sub(message, m, 4), Sub(message, m, 5), Sub(message, m, 6)),
                          Sub(message, m, 1))
    IN entry(regex_search(ios_priority_pattern_, message))

\* message.find(needle): the first position of needle in message, 0 for npos
Find(message, needle) ==
    LET at == {i \in 1..(Len(message) - Len(needle) + 1) :
                  SubSeq(message, i, i + Len(needle) - 1) = needle}
    IN IF at = {} THEN 0 ELSE CHOOSE i \in at : \A j \in at : i <= j

\* CiscoIOSParser::parse_simple_format; content_start counts the three
\* characters % - - of the token, so the content starts at the token's colon
parse_simple_format(message) ==
    LET timestamp(ts_match) ==
            IF ts_match.ok THEN parse_cisco_timestamp(Sub(message, ts_match, 1)) ELSE Now
        content(token, msg_id_pos) ==
            IF msg_id_pos # 0 /\ msg_id_pos + Len(token) - 1 <= Len(message)
            THEN clean_message(Drop(message, msg_id_pos + Len(token) - 1))
            ELSE message
        token(facility, severity_str, mnemonic) ==
            <<"%">> \o facility \o <<"-">> \o severity_str \o <<"-">> \o mnemonic \o <<":">>
        found(facility, severity_str, mnemonic, id) ==
            IosEntry(message, timestamp(regex_search(timestamp_pattern_, message)), facility, severity_str,
                     mnemonic, content(id, Find(message, id)))
        entry(m) ==
            IF ~m.ok THEN None
            ELSE found(Sub(message, m, 1), Sub(message, m, 2), Sub(message, m, 3),
                       token(Sub(message, m, 1), Sub(message, m, 2), Sub(message, m, 3)))
    IN entry(regex_search(message_id_pattern_, message))

\* CiscoIOSParser::parse
ios_parse(raw_message) ==
    LET orElse(first, second) == IF first # None THEN first ELSE second
    IN IF raw_message = <<>> THEN None
       ELSE orElse(parse_standard_format(raw_message),
                   orElse(parse_priority_format(raw_message), parse_simple_format(raw_message)))

\* can_parse of the Cisco parsers: one of the detection patterns is found
DetectedBy(detection_patterns_, raw_message) ==
    \E k \in DOMAIN detection_patterns_ : regex_found(detection_patterns_[k], raw_message)

\* CiscoIOSParser::can_parse
ios_can_parse(raw_message) == DetectedBy(ios_detection_patterns_, raw_message)

(***************************************************************************)
(* CiscoNXOSParser and CiscoASAParser (cisco_nxos_parser.cpp,              *)
(* cisco_asa_parser.cpp)                                                   *)
(***************************************************************************)
\* %NXOS- and \d{4} \w+\s+\d+ \d+:\d+:\d+
nxos_detection_patterns_ ==
    << Regex(0, Text(<<"%", "N", "X", "O", "S", "-">>)),
       Regex(0, Cat(<<Rep(ClsD, 4, 4, TRUE), Lit(" "), Plus(ClsW), Plus(ClsS), Plus(ClsD), Lit(" "),
                      Plus(ClsD), Lit(":"), Plus(ClsD), Lit(":"), Plus(ClsD)>>)) >>

\* %ASA- , %FWSM- , Built\s+(inbound|outbound) and Teardown\s+(TCP|UDP)
asa_detection_patterns_ ==
    << Regex(0, Text(<<"%", "A", "S", "A", "-">>)),
       Regex(0, Text(<<"%", "F", "W", "S", "M", "-">>)),
       Regex(1, Cat(<<Text(<<"B", "u", "i", "l", "t">>), Plus(ClsS), Grp(1, Alt(<<Text(<<"i", "n", "b", "o", "u", "n", "d">>), Text(<<"o", "u", "t", "b", "o", "u", "n", "d">>)>>))>>)),
       Regex(1, Cat(<<Text(<<"T", "e", "a", "r", "d", "o", "w", "n">>), Plus(ClsS), Grp(1, Alt(<<Text(<<"T", "C", "P">>), Text(<<"U", "D", "P">>)>>))>>)) >>

\* CiscoNXOSParser::parse and CiscoASAParser::parse: the whole line as the
\* message, at severity Info, with a note
BasicParse(device_type, note, raw_message) ==
    IF raw_message = <<>> THEN None
    ELSE Some(add_metadata(create_log_entry(device_type, Now, Info, raw_message, raw_message),
                           "parser_note", note))

\* CiscoNXOSParser::parse
nxos_parse(raw_message) ==
    BasicParse("CiscoNXOS", <<"B", "a", "s", "i", "c", " ", "N", "X", "-", "O", "S", " ", "p", "a", "r", "s", "i", "n", "g", " ", "-", " ", "n", "e", "e", "d", "s", " ", "e", "n", "h", "a", "n", "c", "e", "m", "e", "n", "t">>, raw_message)

\* CiscoNXOSParser::can_parse
nxos_can_parse(raw_message) == DetectedBy(nxos_detection_patterns_, raw_message)

\* CiscoASAParser::parse
asa_parse(raw_message) ==
    BasicParse("CiscoASA", <<"B", "a", "s", "i", "c", " ", "A", "S", "A", " ", "p", "a", "r", "s", "i", "n", "g", " ", "-", " ", "n", "e", "e", "d", "s", " ", "e", "n", "h", "a", "n", "c", "e", "m", "e", "n", "t">>, raw_message)

\* CiscoASAParser::can_parse
asa_can_parse(raw_message) == DetectedBy(asa_detection_patterns_, raw_message)

(***************************************************************************)
(* GenericSyslogParser (generic_syslog_parser.cpp)                         *)
(***************************************************************************)
\* <(\d+)>
PriorityPrefix == Cat(<<Lit("<"), Grp(1, Plus(ClsD)), Lit(">")>>)

\* <(\d+)>(\w+\s+\d+\s+\d+:\d+:\d+)\s+(\S+)\s+(.+?):\s*(.+)
rfc3164_pattern_ ==
    Regex(5, Cat(<<PriorityPrefix, Grp(2, MonthDayTime), Plus(ClsS), Grp(3, Plus(ClsNotS)), Plus(ClsS),
                   Grp(4, Rep(ClsAny, 1, -1, FALSE)), Lit(":"), Star(ClsS), Grp(5, Plus(ClsAny))>>))

\* <(\d+)>(\d+)\s+(\S+)\s+(\S+)\s+(\S+)\s+(\S+)\s+(\S+)\s+(\S*)\s*(.*)
rfc5424_pattern_ ==
    Regex(9, Cat(<<PriorityPrefix, Grp(2, Plus(ClsD)), Plus(ClsS), Grp(3, Plus(ClsNotS)), Plus(ClsS),
                   Grp(4, Plus(ClsNotS)), Plus(ClsS), Grp(5, Plus(ClsNotS)), Plus(ClsS),
                   Grp(6, Plus(ClsNotS)), Plus(ClsS), Grp(7, Plus(ClsNotS)), Plus(ClsS),
                   Grp(8, Star(ClsNotS)), Star(ClsS), Grp(9, Star(ClsAny))>>))

\* <(\d+)>(.*)
priority_pattern_ == Regex(2, Cat(<<PriorityPrefix, Grp(2, Star(ClsAny))>>))

\* what the three formats of the generic parser share: the record with the
\* severity priority & 7 and the metadata facility_code (priority >> 3),
\* syslog_priority and format
SyslogEntry(timestamp, priority, message, raw_message, format) ==
    add_metadata(
        add_metadata(
            add_metadata(
                create_log_entry("GenericSyslog", timestamp, parse_severity_num(priority % 8).v,
                                 message, raw_message),
                "facility_code", IntToString(priority \div 8)),
            "syslog_priority", IntToString(priority)),
        "format", format)

\* entry.set_process_id(static_cast<std::uint32_t>(std::stoul(proc_id))) in a
\* try block: a value of up to 31 bits is stored as it is; a value std::stoul
\* takes that has more bits, or a sign, is stored as the marker "wrapped"
ProcessIdOf(proc_id) ==
    LET value(n) == IF n.ok /\ n.v >= 0 THEN <<n.v>>
                    ELSE IF n.ok \/ n.what = "out_of_range" THEN <<"wrapped">>
                    ELSE <<>>
    IN IF proc_id = <<"-">> THEN <<>> ELSE value(Stoi(proc_id))

\* the RFC 5424 branch of GenericSyslogParser::parse
Rfc5424Entry(raw_message, m, priority) ==
    LET structured(entry, structured_data) ==
            IF structured_data # <<>> /\ structured_data # <<"-">>
            THEN add_metadata(entry, "structured_data", structured_data) ELSE entry
    IN structured(
          add_metadata(
              add_metadata(
                  [SyslogEntry(TimeFromText(Sub(raw_message, m, 3)), priority, Sub(raw_message, m, 9),
                               raw_message, <<"R", "F", "C", "5", "4", "2", "4">>)
                      EXCEPT !.hostname = Sub(raw_message, m, 4),
                             !.process_name = Sub(raw_message, m, 5),
                             !.process_id = ProcessIdOf(Sub(raw_message, m, 6))],
                  "syslog_version", Sub(raw_message, m, 2)),
              "message_id", Sub(raw_message, m, 7)),
          Sub(raw_message, m, 8))

\* GenericSyslogParser::parse; std::stoi of the priority is not guarded
syslog_parse(raw_message) ==
    LET with(priority, entry) == IF priority.ok THEN Some(entry) ELSE Thrown
        basic(m) ==
            IF ~m.ok THEN None
            ELSE with(Stoi(Sub(raw_message, m, 1)),
                      SyslogEntry(Now, Stoi(Sub(raw_message, m, 1)).v, Sub(raw_message, m, 2),
                                  raw_message, <<"b", "a", "s", "i", "c", "_", "p", "r", "i", "o", "r", "i", "t", "y">>))
        rfc5424(m) ==
            IF ~m.ok THEN basic(regex_search(priority_pattern_, raw_message))
            ELSE with(Stoi(Sub(raw_message, m, 1)),
                      Rfc5424Entry(raw_message, m, Stoi(Sub(raw_message, m, 1)).v))
        rfc3164(m) ==
            IF ~m.ok THEN rfc5424(regex_search(rfc5424_pattern_, raw_message))
            ELSE with(Stoi(Sub(raw_message, m, 1)),
                      [SyslogEntry(TimeFromText(Sub(raw_message, m, 2)), Stoi(Sub(raw_message, m, 1)).v,
                                   Sub(raw_message, m, 5), raw_message, <<"R", "F", "C", "3", "1", "6", "4">>)
                          EXCEPT !.hostname = Sub(raw_message, m, 3),
                                 !.process_name = Sub(raw_message, m, 4)])
    IN IF raw_message = <<>> THEN None
       ELSE rfc3164(regex_search(rfc3164_pattern_, raw_message))

\* GenericSyslogParser::can_parse
syslog_can_parse(raw_message) == regex_found(priority_pattern_, raw_message)

(***************************************************************************)
(* LuaParser (lua_parser.hpp, lua_parser.cpp)                              *)
(***************************************************************************)
\* LuaParser::LuaParser(script_path)
LuaParserFromFile(fs, script_path) ==
    [ kind |-> "LuaParser", lua_engine_ |-> load_script(NewLuaEngine, fs, script_path).e,
      script_path_ |-> script_path, script_content_ |-> <<>>, script_name_ |-> <<>>,
      is_from_file_ |-> TRUE ]

\* LuaParser::LuaParser(script_content, script_name)
LuaParserFromString(script_content, script_name) ==
    [ kind |-> "LuaParser",
      lua_engine_ |-> load_script_from_string(NewLuaEngine, script_content, script_name).e,
      script_path_ |-> <<>>, script_content_ |-> script_content, script_name_ |-> script_name,
      is_from_file_ |-> FALSE ]

\* LuaParser::is_valid
is_valid(p) == p.lua_engine_.script_loaded

\* LuaParser::parse
lua_parser_parse(p, raw_message, build) ==
    LET done(x) == [p |-> [p EXCEPT !.lua_engine_ = x.e], r |-> x.r]
    IN IF ~is_valid(p) THEN [p |-> p, r |-> None]
       ELSE done(parse(p.lua_engine_, raw_message, build))

\* LuaParser::can_parse
lua_parser_can_parse(p, raw_message, build) ==
    IF ~is_valid(p) THEN Ok(FALSE) ELSE can_parse(p.lua_engine_, raw_message, build)

\* LuaParser::get_device_type
lua_parser_get_device_type(p, build) ==
    IF ~is_valid(p) THEN Ok("Unknown") ELSE get_device_type(p.lua_engine_, build)

\* LuaParser::reload_script
reload_script(p, fs) ==
    LET done(x) == [p |-> [p EXCEPT !.lua_engine_ = x.e], r |-> x.r]
    IN IF p.is_from_file_ THEN done(load_script(reset(p.lua_engine_), fs, p.script_path_))
       ELSE done(load_script_from_string(reset(p.lua_engine_), p.script_content_, p.script_name_))

(***************************************************************************)
(* The BaseParser interface (base_parser.hpp): virtual dispatch            *)
(***************************************************************************)
NativeParsers == {"CiscoIOSParser", "CiscoNXOSParser", "CiscoASAParser", "GenericSyslogParser"}

\* std::make_unique<CiscoIOSParser>() and the like: the native parsers hold
\* nothing but their compiled patterns
NewNativeParser(kind) == [kind |-> kind]

\* p->parse(raw_message)
parser_parse(p, raw_message, build) ==
    CASE p.kind = "CiscoIOSParser" -> [p |-> p, r |-> ios_parse(raw_message)]
      [] p.kind = "CiscoNXOSParser" -> [p |-> p, r |-> nxos_parse(raw_message)]
      [] p.kind = "CiscoASAParser" -> [p |-> p, r |-> asa_parse(raw_message)]
      [] p.kind = "GenericSyslogParser" -> [p |-> p, r |-> syslog_parse(raw_message)]
      [] p.kind = "LuaParser" -> lua_parser_parse(p, raw_message, build)

\* p->can_parse(raw_message)
parser_can_parse(p, raw_message, build) ==
    CASE p.kind = "CiscoIOSParser" -> Ok(ios_can_parse(raw_message))
      [] p.kind = "CiscoNXOSParser" -> Ok(nxos_can_parse(raw_message))
      [] p.kind = "CiscoASAParser" -> Ok(asa_can_parse(raw_message))
      [] p.kind = "GenericSyslogParser" -> Ok(syslog_can_parse(raw_message))
      [] p.kind = "LuaParser" -> lua_parser_can_parse(p, raw_message, build)

\* p->get_device_type()
parser_get_device_type(p, build) ==
    CASE p.kind = "CiscoIOSParser" -> Ok("CiscoIOS")
      [] p.kind = "CiscoNXOSParser" -> Ok("CiscoNXOS")
      [] p.kind = "CiscoASAParser" -> Ok("CiscoASA")
      [] p.kind = "GenericSyslogParser" -> Ok("GenericSyslog")
      [] p.kind = "LuaParser" -> lua_parser_get_device_type(p, build)

RECURSIVE ParseBatchFrom(_, _, _, _, _)
\* the loop of parse_batch from the i-th message on, entries holding the
\* records pushed back so far; an exception leaving parse leaves the loop
ParseBatchFrom(p, raw_messages, i, entries, build) ==
    LET pushed(x) ==
            IF x.r = Thrown THEN [p |-> x.p, r |-> Throw("exception")]
            ELSE ParseBatchFrom(x.p, raw_messages, i + 1,
                                IF x.r = None THEN entries ELSE Append(entries, x.r.entry), build)
    IN IF i > Len(raw_messages) THEN [p |-> p, r |-> Ok(entries)]
       ELSE pushed(parser_parse(p, raw_messages[i], build))

\* parse_batch giving up at the first message parse returns no record for
ParseBatchUntilNone(p, raw_messages, build) ==
    LET nones == {i \in DOMAIN raw_messages : parser_parse(p, raw_messages[i], build).r = None}
        upto == IF nones = {} THEN Len(raw_messages)
                ELSE (CHOOSE i \in nones : \A j \in nones : i <= j) - 1
    IN ParseBatchFrom(p, SubSeq(raw_messages, 1, upto), 1, <<>>, build)

\* BaseParser::parse_batch
parse_batch(p, raw_messages, build) == ParseBatchFrom(p, raw_messages, 1, <<>>, build)

(***************************************************************************)
(* LuaParserRegistry (lua_engine.hpp, lua_engine.cpp)                      *)
(***************************************************************************)
\* a null pointer
Null == [k |-> "null"]

\* the map m with key mapped to value
MapPut(m, key, value) == [x \in DOMAIN m \cup {key} |-> IF x = key THEN value ELSE m[x]]

\* the map m without key
MapErase(m, key) == [x \in DOMAIN m \ {key} |-> m[x]]

\* register_parser that keeps the engine a name holds already
RegisterParserKeepsFirst(reg, fs, script_path, parser_name, build) ==
    LET named(e, name) ==
            IF ~name.ok THEN [reg |-> reg, r |-> Thrown]
            ELSE [reg |-> IF name.v \in DOMAIN reg THEN reg ELSE MapPut(reg, name.v, e), r |-> TRUE]
        loaded(x) ==
            IF ~x.r THEN [reg |-> reg, r |-> FALSE]
            ELSE named(x.e, IF parser_name = <<>> THEN get_parser_name(x.e, build) ELSE Ok(parser_name))
    IN loaded(load_script(NewLuaEngine, fs, script_path))

\* LuaParserRegistry::register_parser; parsers_[name] = std::move(engine)
\* replaces the engine that name held
register_parser(reg, fs, script_path, parser_name, build) ==
    LET named(e, name) ==
            IF ~name.ok THEN [reg |-> reg, r |-> Thrown]
            ELSE [reg |-> MapPut(reg, name.v, e), r |-> TRUE]
        loaded(x) ==
            IF ~x.r THEN [reg |-> reg, r |-> FALSE]
            ELSE named(x.e, IF parser_name = <<>> THEN get_parser_name(x.e, build) ELSE Ok(parser_name))
    IN loaded(load_script(NewLuaEngine, fs, script_path))

\* entry.path().extension() == ".nlp"
HasNlpExtension(path) == Len(path) > 4 /\ SubSeq(path, Len(path) - 3, Len(path)) = <<".", "n", "l", "p">>

RECURSIVE LoadParsersFrom(_, _, _, _, _, _)
\* the loop of load_parsers_from_directory over the entries the iterator
\* gives, from the i-th on; an exception leaving register_parser is not a
\* filesystem_error and leaves the call
LoadParsersFrom(reg, fs, entries, i, loaded_count, build) ==
    LET registered(x) ==
            LoadParsersFrom(x.reg, fs, entries, i + 1,
                            IF x.r THEN loaded_count + 1 ELSE loaded_count, build)
        escapes(x) == x.r /\ ~get_parser_name(x.e, build).ok
    IN IF i > Len(entries) THEN [reg |-> reg, r |-> Ok(loaded_count)]
       ELSE IF entries[i].is_regular_file /\ HasNlpExtension(entries[i].path)
       THEN IF escapes(load_script(NewLuaEngine, fs, entries[i].path))
            THEN [reg |-> reg, r |-> Throw("exception")]
            ELSE registered(register_parser(reg, fs, entries[i].path, <<>>, build))
       ELSE LoadParsersFrom(reg, fs, entries, i + 1, loaded_count, build)

\* LuaParserRegistry::load_parsers_from_directory when the directory iterator
\* gives these entries in this order; a directory that cannot be read gives
\* the filesystem_error that is caught
load_parsers_from_directory(reg, fs, directory, entries, build) ==
    IF ~directory.exists THEN [reg |-> reg, r |-> Ok(0)]
    ELSE LoadParsersFrom(reg, fs, entries, 1, 0, build)

\* the orders in which a std::unordered_map with these keys can be iterated
Orders(keys) == {order \in [1..Cardinality(keys) -> keys] : \A k \in keys : \E i \in DOMAIN order : order[i] = k}

\* the first engine of the iteration, whether or not it accepts
FindFirstRegistered(reg, order, raw_message, build) ==
    IF order = <<>> THEN Null ELSE [k |-> "engine", name |-> order[1]]

\* LuaParserRegistry::find_parser_for_message when the map is iterated in
\* this order: the name of the first engine whose can_parse is true
find_parser_for_message(reg, order, raw_message, build) ==
    LET answer(i) == can_parse(reg[order[i]], raw_message, build)
        stops == {i \in DOMAIN order : ~answer(i).ok \/ answer(i).v}
        at(i) == IF answer(i).ok THEN [k |-> "engine", name |-> order[i]] ELSE Thrown
    IN IF stops = {} THEN Null ELSE at(CHOOSE i \in stops : \A j \in stops : i <= j)

\* LuaParserRegistry::get_parser
get_parser(reg, parser_name) ==
    IF parser_name \in DOMAIN reg THEN [k |-> "engine", name |-> parser_name] ELSE Null

\* LuaParserRegistry::unregister_parser
unregister_parser(reg, parser_name) ==
    [reg |-> MapErase(reg, parser_name), r |-> parser_name \in DOMAIN reg]

\* a LuaEngine* handed out for the engine under name; live until that engine's
\* std::unique_ptr is assigned to, erased or cleared
Pointer(name) == [name |-> name, live |-> TRUE]

\* the names under which a call of register_parser stores an engine, each
\* assignment parsers_[name] = std::move(engine) destroying the engine the
\* name held
RegisteredNames(fs, script_path, parser_name, build) ==
    LET named(name) == IF name.ok THEN {name.v} ELSE {}
        loaded(x) ==
            IF ~x.r THEN {}
            ELSE named(IF parser_name = <<>> THEN get_parser_name(x.e, build) ELSE Ok(parser_name))
    IN loaded(load_script(NewLuaEngine, fs, script_path))

\* the names under which a call of load_parsers_from_directory stores engines
LoadedNames(fs, directory, entries, build) ==
    LET scripts == {i \in DOMAIN entries :
                       entries[i].is_regular_file /\ HasNlpExtension(entries[i].path)}
        escapes(x) == x.r /\ ~get_parser_name(x.e, build).ok
        thrown == {i \in scripts : escapes(load_script(NewLuaEngine, fs, entries[i].path))}
    IN IF ~directory.exists THEN {}
       ELSE UNION {RegisteredNames(fs, entries[i].path, <<>>, build) :
                      i \in {j \in scripts : \A k \in thrown : j < k}}

\* the pointers a caller keeps, after the engines under these names have been
\* destroyed
Destroyed(pointers, names) ==
    {IF pointer.name \in names THEN [pointer EXCEPT !.live = FALSE] ELSE pointer :
        pointer \in pointers}

\* the pointers a caller keeps, after the caller has given up those to the
\* engines under these names
Released(pointers, names) == {pointer \in pointers : pointer.name \notin names}

(***************************************************************************)
(* ParserFactory (parser_factory.hpp, parser_factory.cpp)                  *)
(***************************************************************************)
\* a ParserCreator: one that makes a native parser, one that makes a
\* LuaParser from a script file, and one that returns a null pointer
NativeCreator(kind) == [make |-> kind]

LuaCreator(script_path) == [make |-> "LuaParser", script_path |-> script_path]

NullCreator == [make |-> "null"]

\* creator()
Create(creator, fs) ==
    CASE creator.make = "null" -> Null
      [] creator.make = "LuaParser" -> LuaParserFromFile(fs, creator.script_path)
      [] OTHER -> NewNativeParser(creator.make)

\* ParserFactory::register_builtin_parsers on the empty map
register_builtin_parsers ==
    [device_type \in {"CiscoIOS", "CiscoIOSXE", "CiscoNXOS", "CiscoASA", "GenericSyslog"} |->
        CASE device_type \in {"CiscoIOS", "CiscoIOSXE"} -> NativeCreator("CiscoIOSParser")
          [] device_type = "CiscoNXOS" -> NativeCreator("CiscoNXOSParser")
          [] device_type = "CiscoASA" -> NativeCreator("CiscoASAParser")
          [] device_type = "GenericSyslog" -> NativeCreator("GenericSyslogParser")]

\* ParserFactory::create_parser
create_parser(f, fs, device_type) ==
    IF device_type \in DOMAIN f THEN Create(f[device_type], fs) ELSE Null

\* ParserFactory::is_supported
is_supported(f, device_type) == device_type \in DOMAIN f

\* every candidate given the same priority
FlatPriority(device_type) == 1

\* the priority auto_detect_parser gives a candidate
Priority(device_type) ==
    CASE device_type \in {"CiscoIOS", "CiscoIOSXE", "CiscoNXOS", "CiscoASA"} -> 3
      [] device_type = "GenericSyslog" -> 1
      [] OTHER -> 2

\* the candidates of auto_detect_parser: the device types whose creator gives
\* a parser that accepts the message
Candidates(f, fs, raw_message, build) ==
    LET accepts(made) == made # Null /\ parser_can_parse(made, raw_message, build) = Ok(TRUE)
    IN {device_type \in DOMAIN f : accepts(Create(f[device_type], fs))}

\* the device types std::sort can leave first: the order of an unordered_map
\* and of equal elements after std::sort are unspecified, so any candidate
\* with no candidate of a higher priority
SortedFirst(candidates) ==
    {first \in candidates : \A other \in candidates : ~(Priority(other) > Priority(first))}

\* ParserFactory::auto_detect_parser when the candidate first is sorted first
auto_detect_parser(f, fs, raw_message, first) ==
    [k |-> "parser", device_type |-> first, parser |-> create_parser(f, fs, first)]

\* register_parser without the test for a device type already registered
FactoryRegisterOverwrites(f, device_type, creator) ==
    [f |-> MapPut(f, device_type, creator), r |-> device_type \notin DOMAIN f]

\* ParserFactory::register_parser
factory_register_parser(f, device_type, creator) ==
    IF device_type \in DOMAIN f THEN [f |-> f, r |-> FALSE]
    ELSE [f |-> MapPut(f, device_type, creator), r |-> TRUE]

\* ParserFactory::unregister_parser
factory_unregister_parser(f, device_type) ==
    [f |-> MapErase(f, device_type), r |-> device_type \in DOMAIN f]

(***************************************************************************)
(* TimestampParser (utils/timestamp_parser.cpp), reached from a script     *)
(* through netlog.parse_timestamp (LuaEngine::lua_parse_timestamp)         *)
(***************************************************************************)
\* what std::get_time looks at in a character: a digit, a letter, or the
\* character itself
ShapeChar(c) ==
    IF IsDigit(c) THEN "d"
    ELSE IF c \in Range(UpperAlpha) \cup Range(LowerAlpha) THEN "a"
    ELSE c

Shape(s) == [i \in DOMAIN s |-> ShapeChar(s[i])]

\* a format with the shape of the texts std::get_time reads with it and the
\* position of the four digits of %Y in them, 0 when the format has no %Y
Format(format, shape, year_at) == [format |-> format, shape |-> shape, year_at |-> year_at]

\* TimestampParser::default_formats_ in the order of its initializer
default_formats_ ==
    << Format(<<"%", "Y", "-", "%", "m", "-", "%", "d", " ", "%", "H", ":", "%", "M", ":", "%", "S">>, <<"d", "d", "d", "d", "-", "d", "d", "-", "d", "d", " ", "d", "d", ":", "d", "d", ":", "d", "d">>, 1),
       Format(<<"%", "Y", "-", "%", "m", "-", "%", "d", "T", "%", "H", ":", "%", "M", ":", "%", "S">>, <<"d", "d", "d", "d", "-", "d", "d", "-", "d", "d", "a", "d", "d", ":", "d", "d", ":", "d", "d">>, 1),
       Format(<<"%", "Y", "-", "%", "m", "-", "%", "d", "T", "%", "H", ":", "%", "M", ":", "%", "S", "Z">>, <<"d", "d", "d", "d", "-", "d", "d", "-", "d", "d", "a", "d", "d", ":", "d", "d", ":", "d", "d", "a">>, 1),
       Format(<<"%", "b", " ", "%", "d", " ", "%", "H", ":", "%", "M", ":", "%", "S">>, <<"a", "a", "a", " ", "d", "d", " ", "d", "d", ":", "d", "d", ":", "d", "d">>, 0),
       Format(<<"%", "b", " ", "%", "d", " ", "%", "Y", " ", "%", "H", ":", "%", "M", ":", "%", "S">>, <<"a", "a", "a", " ", "d", "d", " ", "d", "d", "d", "d", " ", "d", "d", ":", "d", "d", ":", "d", "d">>, 8),
       Format(<<"%", "m", "/", "%", "d", "/", "%", "Y", " ", "%", "H", ":", "%", "M", ":", "%", "S">>, <<"d", "d", "/", "d", "d", "/", "d", "d", "d", "d", " ", "d", "d", ":", "d", "d", ":", "d", "d">>, 7),
       Format(<<"%", "d", "/", "%", "m", "/", "%", "Y", " ", "%", "H", ":", "%", "M", ":", "%", "S">>, <<"d", "d", "/", "d", "d", "/", "d", "d", "d", "d", " ", "d", "d", ":", "d", "d", ":", "d", "d">>, 7),
       Format(<<"%", "H", ":", "%", "M", ":", "%", "S">>, <<"d", "d", ":", "d", "d", ":", "d", "d">>, 0) >>

\* TimestampParser::custom_formats_: empty until add_format is called, which
\* nothing in parse does
custom_formats_ == <<>>

\* the text TimestampParser::parse hands to parse_with_format: without a
\* leading asterisk and without the fraction of the seconds
CleanTimestamp(timestamp_str) ==
    LET starless == IF timestamp_str # <<>> /\ timestamp_str[1] = "*" THEN Tail(timestamp_str)
                    ELSE timestamp_str
        cut(clean_str, dot_pos) ==
            LET space == {i \in dot_pos .. Len(clean_str) : clean_str[i] = " "}
            IN IF space = {} THEN SubSeq(clean_str, 1, dot_pos - 1)
               ELSE SubSeq(clean_str, 1, dot_pos - 1)
                       \o Drop(clean_str, CHOOSE i \in space : \A j \in space : i <= j)
    IN IF Find(starless, <<".">>) = 0 THEN starless ELSE cut(starless, Find(starless, <<".">>))

\* ss >> std::get_time(&tm, format) of parse_with_format on a tm of zeros:
\* whether the text was read, and the tm_year it left
GetTime(timestamp_str, format) ==
    IF Len(timestamp_str) < Len(format.shape)
           \/ SubSeq(Shape(timestamp_str), 1, Len(format.shape)) # format.shape
    THEN [ok |-> FALSE]
    ELSE [ok |-> TRUE,
          tm_year |-> IF format.year_at = 0 THEN 0
                      ELSE Stoi(SubSeq(timestamp_str, format.year_at, format.year_at + 3)).v - 1900]

\* the memory a thread touches: the Lua state of its own engine, the two
\* format lists of TimestampParser, and the struct tm of std::localtime
LuaStateOf(t) == [loc |-> "L_", of |-> t]

FormatLists == {[loc |-> "custom_formats_"], [loc |-> "default_formats_"]}

LocaltimeBuffer == [loc |-> "std::localtime"]

\* the threads, one LuaEngine each
Workers == {1, 2}

\* a thread outside LuaEngine::parse
Idle == [pc |-> "idle", timestamp_str |-> <<>>, clean_str |-> <<>>, i |-> 0, tm_year |-> 0,
         reads |-> {}, writes |-> {}, r |-> Now]

(***************************************************************************)
(* State                                                                   *)
(***************************************************************************)
VARIABLES
    engine,     \* a LuaEngine used directly
    parser,     \* a parser used through the BaseParser interface
    registry,   \* parsers_ of a LuaParserRegistry: the engine under each name
    factory,    \* parsers_ of the ParserFactory: the creator of each device type
    lua_build,  \* how the Lua library was built: as C ("c") or as C++ ("cpp")
    held,       \* the LuaEngine pointers a caller of the registry keeps in use
    top,        \* the number of values on the stack of engine's Lua state
    worker,     \* the threads that parse, each with a LuaEngine of its own
    tmbuf,      \* the one struct tm std::localtime fills and returns
    ret         \* the last operation: its name, its arguments and what it returned

vars == <<engine, parser, registry, factory, lua_build, held, top, worker, tmbuf, ret>>

\* no parser constructed yet
NoParser == [kind |-> "none"]

\* a fresh LuaEngine, no parser, an empty registry and the factory as its
\* constructor leaves it
Init ==
    /\ engine = NewLuaEngine
    /\ parser = NoParser
    /\ registry = <<>>
    /\ factory = register_builtin_parsers
    /\ lua_build \in {"c", "cpp"}
    /\ held = {}
    /\ top = 0
    /\ worker = [t \in Workers |-> Idle]
    /\ tmbuf = [tm_year |-> 0]
    /\ ret = [op |-> "init"]

(***************************************************************************)
(* Operations on a LuaEngine                                               *)
(***************************************************************************)
\* the stack of L_ grows by one of the numbers in left; the model follows it
\* up to MaxTop values
MaxTop == 4

Leave(left) == \E values \in left : top + values <= MaxTop /\ top' = top + values

LoadScript(script_path) ==
    LET done(x) ==
            /\ engine' = x.e
            /\ ret' = [op |-> "load_script", script_path |-> script_path,
                       file |-> Files[script_path], r |-> x.r]
    IN /\ done(load_script(engine, Files, script_path))
       /\ Leave(load_script_stack(engine, Files, script_path))
       /\ UNCHANGED <<lua_build, parser, registry, factory, held, worker, tmbuf>>

LoadScriptFromString(script_content) ==
    LET done(x) ==
            /\ engine' = x.e
            /\ ret' = [op |-> "load_script_from_string", file |-> File(script_content), r |-> x.r]
    IN /\ done(load_script_from_string(engine, script_content, InlineName(script_content)))
       /\ Leave(load_script_from_string_stack(engine, script_content))
       /\ UNCHANGED <<lua_build, parser, registry, factory, held, worker, tmbuf>>

Reset ==
    /\ engine' = reset(engine)
    /\ top' = 0
    /\ ret' = [op |-> "reset"]
    /\ UNCHANGED <<lua_build, parser, registry, factory, held, worker, tmbuf>>

\* LuaEngine::validate_script: a load into an engine of its own
ValidateScript(script_path) ==
    /\ ret' = [op |-> "validate_script", script_path |-> script_path,
               r |-> load_script(NewLuaEngine, Files, script_path).r]
    /\ UNCHANGED <<engine, lua_build, parser, registry, factory, held, top, worker, tmbuf>>

Parse(raw_message) ==
    LET done(x) ==
            /\ engine' = x.e
            /\ ret' = [op |-> "parse", raw_message |-> raw_message, loaded |-> engine.script_loaded,
                       script |-> lua_pcall(engine.G, "parse", <<LStr(raw_message)>>, lua_build),
                       r |-> x.r]
    IN /\ done(parse(engine, raw_message, lua_build))
       /\ Leave(parse_stack(engine, raw_message, lua_build))
       /\ UNCHANGED <<lua_build, parser, registry, factory, held, worker, tmbuf>>

CanParse(raw_message) ==
    /\ ret' = [op |-> "can_parse", raw_message |-> raw_message, loaded |-> engine.script_loaded,
               script |-> lua_pcall(engine.G, "can_parse", <<LStr(raw_message)>>, lua_build),
               r |-> can_parse(engine, raw_message, lua_build)]
    /\ Leave(can_parse_stack(engine, raw_message, lua_build))
    /\ UNCHANGED <<engine, lua_build, parser, registry, factory, held, worker, tmbuf>>

GetDeviceType ==
    /\ ret' = [op |-> "get_device_type", r |-> get_device_type(engine, lua_build)]
    /\ Leave(get_device_type_stack(engine, lua_build))
    /\ UNCHANGED <<engine, lua_build, parser, registry, factory, held, worker, tmbuf>>

GetParserName ==
    /\ ret' = [op |-> "get_parser_name", r |-> get_parser_name(engine, lua_build)]
    /\ Leave(getter_stack(engine, "get_parser_name", lua_build))
    /\ UNCHANGED <<engine, lua_build, parser, registry, factory, held, worker, tmbuf>>

GetVersion ==
    /\ ret' = [op |-> "get_version", r |-> get_version(engine, lua_build)]
    /\ Leave(getter_stack(engine, "get_version", lua_build))
    /\ UNCHANGED <<engine, lua_build, parser, registry, factory, held, worker, tmbuf>>

GetSupportedPatterns ==
    /\ ret' = [op |-> "get_supported_patterns", r |-> get_supported_patterns(engine, lua_build)]
    /\ Leave(getter_stack(engine, "get_supported_patterns", lua_build))
    /\ UNCHANGED <<engine, lua_build, parser, registry, factory, held, worker, tmbuf>>

\* a script calls netlog.<fn> with the arguments args
CallHost(fn, args) ==
    /\ ret' = [op |-> "host", fn |-> fn, args |-> args, r |-> HostCall(fn, args)]
    /\ UNCHANGED <<engine, lua_build, parser, registry, factory, held, top, worker, tmbuf>>

NextHost ==
    \E fn \in {"parse_severity", "parse_device_type"}, args \in HostArgs : CallHost(fn, args)

SpecHost == Init /\ [][NextHost]_vars

NextLua ==
    \/ \E script_path \in EnginePaths : LoadScript(script_path)
    \/ \E script_content \in EngineScripts : LoadScriptFromString(script_content)
    \/ Reset
    \/ \E script_path \in EnginePaths : ValidateScript(script_path)
    \/ \E raw_message \in ParseMessages : Parse(raw_message)
    \/ \E raw_message \in CanParseMessages : CanParse(raw_message)
    \/ GetDeviceType
    \/ GetParserName
    \/ GetVersion
    \/ GetSupportedPatterns

SpecLua == Init /\ [][NextLua]_vars


(***************************************************************************)
(* Operations on a parser through the BaseParser interface                 *)
(***************************************************************************)
MakeNativeParser(kind) ==
    /\ parser' = NewNativeParser(kind)
    /\ ret' = [op |-> "make", kind |-> kind]
    /\ UNCHANGED <<engine, registry, factory, lua_build, held, top, worker, tmbuf>>

MakeLuaParserFromFile(script_path) ==
    /\ parser' = LuaParserFromFile(Files, script_path)
    /\ ret' = [op |-> "make", kind |-> "LuaParser"]
    /\ UNCHANGED <<engine, registry, factory, lua_build, held, top, worker, tmbuf>>

MakeLuaParserFromString(script_content) ==
    /\ parser' = LuaParserFromString(script_content, InlineName(script_content))
    /\ ret' = [op |-> "make", kind |-> "LuaParser"]
    /\ UNCHANGED <<engine, registry, factory, lua_build, held, top, worker, tmbuf>>

ReloadScript ==
    LET done(x) ==
            /\ parser' = x.p
            /\ ret' = [op |-> "reload_script", r |-> x.r]
    IN /\ parser.kind = "LuaParser"
       /\ done(reload_script(parser, Files))
       /\ UNCHANGED <<engine, registry, factory, lua_build, held, top, worker, tmbuf>>

\* what the script's function returns when a valid LuaParser calls it
ScriptAnswer(p, name, raw_message, build) ==
    IF p.kind = "LuaParser" /\ is_valid(p)
    THEN lua_pcall(p.lua_engine_.G, name, <<LStr(raw_message)>>, build)
    ELSE [st |-> "none"]

ParserParse(raw_message) ==
    LET done(x) ==
            /\ parser' = x.p
            /\ ret' = [op |-> "parser.parse", raw_message |-> raw_message,
                       script |-> ScriptAnswer(parser, "parse", raw_message, lua_build), r |-> x.r]
    IN /\ parser # NoParser
       /\ done(parser_parse(parser, raw_message, lua_build))
       /\ UNCHANGED <<engine, registry, factory, lua_build, held, top, worker, tmbuf>>

ParserCanParse(raw_message) ==
    /\ parser # NoParser
    /\ ret' = [op |-> "parser.can_parse", raw_message |-> raw_message,
               script |-> ScriptAnswer(parser, "can_parse", raw_message, lua_build),
               r |-> parser_can_parse(parser, raw_message, lua_build)]
    /\ UNCHANGED <<engine, parser, registry, factory, lua_build, held, top, worker, tmbuf>>

ParserGetDeviceType ==
    /\ parser # NoParser
    /\ ret' = [op |-> "parser.get_device_type", r |-> parser_get_device_type(parser, lua_build)]
    /\ UNCHANGED <<engine, parser, registry, factory, lua_build, held, top, worker, tmbuf>>

NextParsers ==
    \/ \E kind \in NativeParsers : MakeNativeParser(kind)
    \/ \E script_path \in EnginePaths : MakeLuaParserFromFile(script_path)
    \/ \E script_content \in {ScriptPartial, ScriptWild} : MakeLuaParserFromString(script_content)
    \/ ReloadScript
    \/ \E raw_message \in ParserMessages : ParserParse(raw_message)
    \/ \E raw_message \in ParserMessages : ParserCanParse(raw_message)
    \/ ParserGetDeviceType

SpecParsers == Init /\ [][NextParsers]_vars

(***************************************************************************)
(* Operations on a LuaParserRegistry                                       *)
(***************************************************************************)
RegistryRegisterParser(script_path, parser_name) ==
    LET done(x) ==
            /\ registry' = x.reg
            /\ ret' = [op |-> "register_parser", script_path |-> script_path,
                       parser_name |-> parser_name, r |-> x.r]
    IN /\ done(register_parser(registry, Files, script_path, parser_name, lua_build))
       /\ held' = Destroyed(held, RegisteredNames(Files, script_path, parser_name, lua_build) \cap DOMAIN registry)
       /\ UNCHANGED <<engine, parser, factory, lua_build, top, worker, tmbuf>>

FindParserForMessage(raw_message) ==
    \E order \in Orders(DOMAIN registry) :
        /\ ret' = [op |-> "find_parser_for_message", raw_message |-> raw_message,
                   r |-> find_parser_for_message(registry, order, raw_message, lua_build)]
        /\ UNCHANGED <<engine, parser, registry, factory, lua_build, held, top, worker, tmbuf>>

GetParser(parser_name) ==
    /\ ret' = [op |-> "get_parser", parser_name |-> parser_name, r |-> get_parser(registry, parser_name)]
    /\ UNCHANGED <<engine, parser, registry, factory, lua_build, held, top, worker, tmbuf>>

UnregisterParser(parser_name) ==
    /\ registry' = unregister_parser(registry, parser_name).reg
    /\ ret' = [op |-> "unregister_parser", parser_name |-> parser_name,
               r |-> unregister_parser(registry, parser_name).r]
    /\ held' = Released(held, {parser_name})
    /\ UNCHANGED <<engine, parser, factory, lua_build, top, worker, tmbuf>>

\* LuaParserRegistry::clear
Clear ==
    /\ registry' = <<>>
    /\ ret' = [op |-> "clear"]
    /\ held' = {}
    /\ UNCHANGED <<engine, parser, factory, lua_build, top, worker, tmbuf>>

\* the names looked up in a registry
LookupNames == {<<"P", "a", "r", "s", "e", "r", "1">>, <<"P", "a", "r", "s", "e", "r", "2">>, <<"x">>}

NextRegistry ==
    \/ \E script_path \in Paths, parser_name \in RegistryNames :
          RegistryRegisterParser(script_path, parser_name)
    \/ \E raw_message \in RegistryMessages : FindParserForMessage(raw_message)
    \/ \E parser_name \in LookupNames : GetParser(parser_name)
    \/ \E parser_name \in LookupNames : UnregisterParser(parser_name)
    \/ Clear

SpecRegistry == Init /\ [][NextRegistry]_vars

(***************************************************************************)
(* A LuaParserRegistry filled from directories                             *)
(***************************************************************************)
DirEntry(path, is_regular_file) == [path |-> path, is_regular_file |-> is_regular_file]

\* the directories given to load_parsers_from_directory: one with two scripts
\* of the same parser name among its entries, one with a script that does not
\* load, an empty one and one that does not exist
Directories ==
    { [exists |-> TRUE,
       entries |-> {DirEntry(PathParser1, TRUE), DirEntry(PathCopy1, TRUE), DirEntry(PathParser2, TRUE),
                    DirEntry(<<"t", "/", "r", "e", "a", "d", "m", "e", ".", "t", "x", "t">>, TRUE), DirEntry(<<"t", "/", "o", "l", "d", ".", "n", "l", "p">>, FALSE)}],
      [exists |-> TRUE, entries |-> {DirEntry(PathParser2, TRUE), DirEntry(PathIncomplete, TRUE)}],
      [exists |-> TRUE, entries |-> {}],
      [exists |-> FALSE, entries |-> {}] }

LoadParsersFromDirectory(directory) ==
    LET done(x) ==
            /\ registry' = x.reg
            /\ ret' = [op |-> "load_parsers_from_directory", directory |-> directory, r |-> x.r]
    IN /\ \E entries \in Orders(directory.entries) :
             /\ done(load_parsers_from_directory(registry, Files, directory, entries, lua_build))
             /\ held' = Destroyed(held, LoadedNames(Files, directory, entries, lua_build)
                                            \cap DOMAIN registry)
       /\ UNCHANGED <<engine, parser, factory, lua_build, top, worker, tmbuf>>

NextDirectory ==
    \/ \E directory \in Directories : LoadParsersFromDirectory(directory)
    \/ \E script_path \in {PathParser1, PathParser2, PathInvalid}, parser_name \in RegistryNames :
          RegistryRegisterParser(script_path, parser_name)
    \/ \E parser_name \in LookupNames : GetParser(parser_name)
    \/ \E parser_name \in LookupNames : UnregisterParser(parser_name)
    \/ Clear

SpecDirectory == Init /\ [][NextDirectory]_vars

(***************************************************************************)
(* A caller that keeps the engines a registry hands out                    *)
(***************************************************************************)
\* get_parser(parser_name) by a caller that keeps the pointer in use
HoldParser(parser_name) ==
    /\ ret' = [op |-> "get_parser", parser_name |-> parser_name, r |-> get_parser(registry, parser_name)]
    /\ held' = IF get_parser(registry, parser_name) = Null THEN held
               ELSE held \cup {Pointer(parser_name)}
    /\ UNCHANGED <<engine, parser, registry, factory, lua_build, top, worker, tmbuf>>

\* find_parser_for_message(raw_message) by a caller that keeps the pointer in
\* use
HoldFoundParser(raw_message) ==
    LET kept(found) ==
            /\ ret' = [op |-> "find_parser_for_message", raw_message |-> raw_message, r |-> found]
            /\ held' = IF found.k = "engine" THEN held \cup {Pointer(found.name)} ELSE held
    IN /\ \E order \in Orders(DOMAIN registry) :
             kept(find_parser_for_message(registry, order, raw_message, lua_build))
       /\ UNCHANGED <<engine, parser, registry, factory, lua_build, top, worker, tmbuf>>

NextPointers ==
    \/ \E script_path \in {PathParser1, PathInvalid}, parser_name \in RegistryNames :
          RegistryRegisterParser(script_path, parser_name)
    \/ \E directory \in {d \in Directories : Cardinality(d.entries) <= 2} :
          LoadParsersFromDirectory(directory)
    \/ \E parser_name \in LookupNames : HoldParser(parser_name)
    \/ \E raw_message \in {MsgIOS, MsgOther} : HoldFoundParser(raw_message)
    \/ \E parser_name \in LookupNames : UnregisterParser(parser_name)
    \/ Clear

SpecPointers == Init /\ [][NextPointers]_vars

(***************************************************************************)
(* Operations on the ParserFactory                                         *)
(***************************************************************************)
\* the creators registered with the factory, by device type
Registrations ==
    { <<"CiscoIOS", NativeCreator("CiscoIOSParser")>>,
      <<"CiscoASA", NativeCreator("CiscoASAParser")>>,
      <<"GenericSyslog", NativeCreator("GenericSyslogParser")>>,
      <<"Custom", LuaCreator(PathParser1)>>,
      <<"Custom", NullCreator>>,
      <<"Unknown", NativeCreator("GenericSyslogParser")>> }

\* the lines given to auto_detect_parser
FactoryMessages ==
    { <<"%", "L", "I", "N", "K", "-", "3", "-", "U", "P", ":", " ", "x">>,
      <<"<", "5", ">", "%", "S", "Y", "S", "-", "5", "-", "C", ":", " ", "x">>,
      <<"<", "1", "3", ">", "h", "e", "l", "l", "o">>,
      <<"<", "5", ">", "a", "n", " ", "I", "O", "S", " ", "m">>,
      <<"<", "1", ">", "I", "O", "S", " ", "%", "A", "S", "A", "-">>,
      <<"%", "A", "S", "A", "-", "6", "-", "3", "0", "2", "0", "1", "3", ":", " ", "x">>,
      <<"%", "N", "X", "O", "S", "-", "2", "-", "X", ":", " ", "y">>,
      MsgIOS,
      MsgOther }

FactoryRegisterParser(device_type, creator) ==
    /\ factory' = factory_register_parser(factory, device_type, creator).f
    /\ ret' = [op |-> "factory.register_parser", device_type |-> device_type, creator |-> creator,
               r |-> factory_register_parser(factory, device_type, creator).r]
    /\ UNCHANGED <<engine, parser, registry, lua_build, held, top, worker, tmbuf>>

FactoryUnregisterParser(device_type) ==
    /\ factory' = factory_unregister_parser(factory, device_type).f
    /\ ret' = [op |-> "factory.unregister_parser", device_type |-> device_type,
               r |-> factory_unregister_parser(factory, device_type).r]
    /\ UNCHANGED <<engine, parser, registry, lua_build, held, top, worker, tmbuf>>

CreateParser(device_type) ==
    /\ ret' = [op |-> "create_parser", device_type |-> device_type,
               r |-> create_parser(factory, Files, device_type)]
    /\ UNCHANGED <<engine, parser, registry, factory, lua_build, held, top, worker, tmbuf>>

IsSupported(device_type) ==
    /\ ret' = [op |-> "is_supported", device_type |-> device_type,
               r |-> is_supported(factory, device_type)]
    /\ UNCHANGED <<engine, parser, registry, factory, lua_build, held, top, worker, tmbuf>>

AutoDetectParser(raw_message) ==
    LET found(candidates) ==
            IF candidates = {} THEN {Null}
            ELSE {auto_detect_parser(factory, Files, raw_message, first) : first \in SortedFirst(candidates)}
    IN /\ \E r \in found(Candidates(factory, Files, raw_message, lua_build)) :
             ret' = [op |-> "auto_detect_parser", raw_message |-> raw_message, r |-> r]
       /\ UNCHANGED <<engine, parser, registry, factory, lua_build, held, top, worker, tmbuf>>

NextFactory ==
    \/ \E registration \in Registrations : FactoryRegisterParser(registration[1], registration[2])
    \/ \E registration \in Registrations : FactoryUnregisterParser(registration[1])
    \/ \E device_type \in DeviceType : CreateParser(device_type)
    \/ \E device_type \in DeviceType : IsSupported(device_type)
    \/ \E raw_message \in FactoryMessages : AutoDetectParser(raw_message)

SpecFactory == Init /\ [][NextFactory]_vars

(***************************************************************************)
(* Registrations with the ParserFactory, the built-in types included       *)
(***************************************************************************)
\* creators offered for device types that have a built-in parser and for the
\* ones that have none
Replacements ==
    Registrations \cup { <<"CiscoIOS", LuaCreator(PathParser1)>>,
                         <<"CiscoNXOS", NativeCreator("CiscoIOSParser")>>,
                         <<"GenericSyslog", NullCreator>> }

NextRegistration ==
    \/ \E registration \in Replacements : FactoryRegisterParser(registration[1], registration[2])
    \/ \E registration \in Replacements : FactoryUnregisterParser(registration[1])
    \/ \E device_type \in DeviceType : IsSupported(device_type)

SpecRegistration == Init /\ [][NextRegistration]_vars

(***************************************************************************)
(* The native conversions between text and the taxonomies                  *)
(***************************************************************************)
\* the texts given to parse_severity and parse_device_type
NativeTexts ==
    HostTexts \cup { <<"E", "M", "E", "R", "G">>, <<"e", "m", "e", "r", "g", "e", "n", "c", "y">>, <<"A", "l", "e", "r", "t">>, <<"c", "r", "i", "t">>, <<"c", "r", "i", "t", "i", "c", "a", "l">>, <<"e", "r", "r">>, <<"w", "a", "r", "n">>, <<"n", "o", "t", "e">>,
                     <<"n", "o", "t", "i", "c", "e">>, <<"i", "n", "f", "o">>, <<"+", "5">>, <<"5", " ">>, <<"7", ".", "5">>, <<"c", "i", "s", "c", "o", "i", "o", "s">>, <<"c", "i", "s", "c", "o", "-", "a", "s", "a">>, <<"G", "e", "n", "e", "r", "i", "c", "-", "S", "y", "s", "l", "o", "g">>,
                     <<"n", "x", "-", "o", "s">>, <<"i", "o", "s", " ">>, <<"1">>, <<"2">>, <<"3">>, <<"4">>, <<"6">> }

ParseSeverityText(severity_str) ==
    /\ ret' = [op |-> "parse_severity", text |-> severity_str, r |-> parse_severity(severity_str)]
    /\ UNCHANGED <<engine, parser, registry, factory, lua_build, held, top, worker, tmbuf>>

ParseDeviceTypeText(type_str) ==
    /\ ret' = [op |-> "parse_device_type", text |-> type_str, r |-> parse_device_type(type_str)]
    /\ UNCHANGED <<engine, parser, registry, factory, lua_build, held, top, worker, tmbuf>>

\* parse_severity(to_string(severity))
SeverityRoundTrip(severity) ==
    /\ ret' = [op |-> "severity.round_trip", severity |-> severity, text |-> SeverityToString(severity),
               r |-> parse_severity(SeverityToString(severity))]
    /\ UNCHANGED <<engine, parser, registry, factory, lua_build, held, top, worker, tmbuf>>

\* parse_device_type(to_string(device_type))
DeviceTypeRoundTrip(device_type) ==
    /\ ret' = [op |-> "device_type.round_trip", device_type |-> device_type,
               text |-> DeviceTypeToString(device_type),
               r |-> parse_device_type(DeviceTypeToString(device_type))]
    /\ UNCHANGED <<engine, parser, registry, factory, lua_build, held, top, worker, tmbuf>>

NextText ==
    \/ \E severity_str \in NativeTexts : ParseSeverityText(severity_str)
    \/ \E type_str \in NativeTexts : ParseDeviceTypeText(type_str)
    \/ \E severity \in Severity : SeverityRoundTrip(severity)
    \/ \E device_type \in DeviceType : DeviceTypeRoundTrip(device_type)

SpecText == Init /\ [][NextText]_vars

(***************************************************************************)
(* A scripted parser reloaded                                              *)
(***************************************************************************)
NextReload ==
    \/ \E script_path \in Paths : MakeLuaParserFromFile(script_path)
    \/ \E script_content \in {ScriptPartial, ScriptWild, ScriptOnce} :
          MakeLuaParserFromString(script_content)
    \/ ReloadScript
    \/ \E raw_message \in ParseMessages : ParserParse(raw_message)
    \/ \E raw_message \in CanParseMessages : ParserCanParse(raw_message)

SpecReload == Init /\ [][NextReload]_vars

(***************************************************************************)
(* A parser given a batch of lines                                         *)
(***************************************************************************)
\* the batches given to parse_batch: none, one and several lines, lines a
\* parser takes between lines it does not, and the same line twice
Batches ==
    { <<>>,
      <<<<"h", "e", "l", "l", "o", " ", "w", "o", "r", "l", "d">>>>,
      <<<<"*", "M", "a", "r", " ", "1", " ", "0", "0", ":", "0", "0", ":", "0", "1", ":", " ", "%", "L", "I", "N", "K", "-", "3", "-", "U", "P", "D", "O", "W", "N", ":", " ", "u", "p">>, <<"h", "e", "l", "l", "o", " ", "w", "o", "r", "l", "d">>, <<"%", "B", "G", "P", "-", "5", "-", "A", "D", "J">>>>,
      <<<<"<", "1", "3", ">", "h", "e", "l", "l", "o">>, <<"<", "3", "4", ">", "O", "c", "t", " ", "1", "1", " ", "2", "2", ":", "1", "4", ":", "1", "5", " ", "h", "o", "s", "t", " ", "s", "u", ":", " ", "f", "a", "i", "l">>>>,
      <<<<"%", "A", "S", "A", "-", "6", "-", "3", "0", "2", "0", "1", "3", ":", " ", "B", "u", "i", "l", "t", " ", "i", "n", "b", "o", "u", "n", "d", " ", "T", "C", "P">>, <<"T", "e", "a", "r", "d", "o", "w", "n", " ", "U", "D", "P", " ", "x">>, <<>>>>,
      <<<<"2", "0", "2", "4", " ", "J", "a", "n", " ", "1", " ", "1", "0", ":", "0", "0", ":", "0", "0", " ", "s", "w", " ", "%", "N", "X", "O", "S", "-", "2", "-", "X", ":", " ", "y">>, <<"r", "1", " ", "%", "O", "S", "P", "F", "-", "9", "-", "A", "D", "J", ":", " ", "n", "b", "r">>>>,
      <<<<"%", "S", "E", "C", "-", "9", "9", "9", "9", "9", "9", "9", "9", "9", "9", "9", "-", "X", ":", " ", "y">>, <<"%", "B", "G", "P", "-", "5", "-", "A", "D", "J">>>>,
      <<<<"n", "i", "l">>, <<"f", "u", "l", "l">>, <<"e", "r", "r">>, <<"c", "o", "e", "r", "c", "e">>>>,
      <<<<"f", "u", "l", "l">>, <<"f", "u", "l", "l">>>>,
      <<<<"c", "o", "e", "r", "c", "e">>, <<"s", "e", "v", "=", "b", "o", "g", "u", "s">>, <<"f", "u", "l", "l">>>>,
      <<<<"n", "u", "m">>, <<"t", "b", "l">>>>,
      <<<<"<", "5", ">", "a", "n", " ", "I", "O", "S", " ", "m">>, <<"<", "1", "3", ">", "a", "n", " ", "I", "O", "S", " ", "m", " ", "%", "A", "S", "A", "-">>, <<"<", "1", "8", "9", ">", "1", "2", ":", " ", "%", "S", "Y", "S", "-", "5", "-", "C", "O", "N", "F", "I", "G", "_", "I", ":", " ", "c", "f", "g">>>> }

ParseBatch(raw_messages) ==
    LET done(x) ==
            /\ parser' = x.p
            /\ ret' = [op |-> "parser.parse_batch", p |-> parser, raw_messages |-> raw_messages,
                       r |-> x.r]
    IN /\ parser # NoParser
       /\ done(parse_batch(parser, raw_messages, lua_build))
       /\ UNCHANGED <<engine, registry, factory, lua_build, held, top, worker, tmbuf>>

NextBatch ==
    \/ \E kind \in NativeParsers : MakeNativeParser(kind)
    \/ \E script_content \in {ScriptPartial, ScriptWild} : MakeLuaParserFromString(script_content)
    \/ \E raw_messages \in Batches : ParseBatch(raw_messages)

SpecBatch == Init /\ [][NextBatch]_vars

(***************************************************************************)
(* A native parser given syslog and Cisco IOS lines                        *)
(***************************************************************************)
\* RFC 3164 lines by their parts; pid is <<>> for a tag without a bracketed pid
Rfc3164Lines ==
    { [priority |-> 34, timestamp |-> <<"J", "a", "n", " ", "1", "5", " ", "1", "0", ":", "3", "0", ":", "4", "5">>, hostname |-> <<"s", "e", "r", "v", "e", "r", "0", "1">>,
       tag |-> <<"s", "s", "h", "d">>, pid |-> <<"1", "2", "3", "4">>, message |-> <<"A", "c", "c", "e", "p", "t", "e", "d", " ", "p", "a", "s", "s", "w", "o", "r", "d", " ", "f", "o", "r", " ", "a", "d", "m", "i", "n">>],
      [priority |-> 13, timestamp |-> <<"F", "e", "b", " ", " ", "5", " ", "0", "1", ":", "0", "2", ":", "0", "3">>, hostname |-> <<"h">>,
       tag |-> <<"c", "r", "o", "n">>, pid |-> <<>>, message |-> <<"x">>],
      [priority |-> 191, timestamp |-> <<"M", "a", "r", " ", "1", " ", "0", "0", ":", "0", "0", ":", "0", "1">>, hostname |-> <<"r", "1">>,
       tag |-> <<"k", "e", "r", "n", "e", "l">>, pid |-> <<"7">>, message |-> <<"u", "p">>],
      [priority |-> 0, timestamp |-> <<"D", "e", "c", " ", "3", "1", " ", "2", "3", ":", "5", "9", ":", "5", "9">>, hostname |-> <<"1", "0", ".", "0", ".", "0", ".", "1">>,
       tag |-> <<"s", "u">>, pid |-> <<>>, message |-> <<"f", "a", "i", "l", ":", " ", "r", "o", "o", "t">>] }

\* <P>timestamp hostname tag[pid]: message
Rfc3164Line(l) ==
    <<"<">> \o IntToString(l.priority) \o <<">">> \o l.timestamp \o <<" ">> \o l.hostname
        \o <<" ">> \o l.tag \o (IF l.pid = <<>> THEN <<>> ELSE <<"[">> \o l.pid \o <<"]">>)
        \o <<":", " ">> \o l.message

\* priority-prefixed Cisco IOS lines by their parts: the timestamp is a
\* sequence number, a time of day, or has the layout "Mon D HH:MM:SS" with and
\* without the leading star and the milliseconds
PriorityIosLines ==
    { [priority |-> <<"1", "8", "9">>, timestamp |-> <<"1", "2">>, facility |-> <<"S", "Y", "S">>, severity |-> 5,
       mnemonic |-> <<"C", "O", "N", "F", "I", "G", "_", "I">>, message |-> <<"c", "f", "g">>],
      [priority |-> <<"1", "8", "7">>, timestamp |-> <<"M", "a", "r", " ", "1", " ", "0", "0", ":", "0", "0", ":", "0", "1">>, facility |-> <<"L", "I", "N", "K">>, severity |-> 3,
       mnemonic |-> <<"U", "P", "D", "O", "W", "N">>, message |-> <<"u", "p">>],
      [priority |-> <<"1", "3">>, timestamp |-> <<"*", "M", "a", "r", " ", " ", "1", " ", "0", "0", ":", "0", "0", ":", "0", "1", ".", "1", "2", "3">>, facility |-> <<"S", "E", "C">>, severity |-> 6,
       mnemonic |-> <<"I", "P", "A", "C", "C", "E", "S", "S", "L", "O", "G", "P">>, message |-> <<"l", "i", "s", "t", " ", "1">>],
      [priority |-> <<"8">>, timestamp |-> <<"0", "0", ":", "0", "0", ":", "0", "1">>, facility |-> <<"O", "S", "P", "F">>, severity |-> 7,
       mnemonic |-> <<"A", "D", "J", "C", "H", "G">>, message |-> <<"n", "b", "r">>],
      [priority |-> <<"1", "9", "0">>, timestamp |-> <<"r", "1", " ", "4", "2">>, facility |-> <<"S", "Y", "S">>, severity |-> 0,
       mnemonic |-> <<"R", "E", "S", "T", "A", "R", "T">>, message |-> <<"n", "o", "w">>] }

\* <priority>timestamp: %FACILITY-severity-MNEMONIC: message
PriorityIosLine(l) ==
    <<"<">> \o l.priority \o <<">">> \o l.timestamp \o <<":", " ", "%">> \o l.facility
        \o <<"-", Digits[l.severity + 1], "-">> \o l.mnemonic \o <<":", " ">> \o l.message

\* lines with a %FACILITY-d-MNEMONIC: token and no timestamp before it, by
\* their parts
SimpleIosLines ==
    { [before |-> <<>>, facility |-> <<"L", "I", "N", "E", "P", "R", "O", "T", "O">>, severity |-> 5, mnemonic |-> <<"U", "P", "D", "O", "W", "N">>,
       message |-> <<"L", "i", "n", "e", " ", "p", "r", "o", "t", "o", "c", "o", "l", " ", "o", "n", " ", "I", "n", "t", "e", "r", "f", "a", "c", "e", " ", "G", "i", "g", "a", "b", "i", "t", "E", "t", "h", "e", "r", "n", "e", "t", "0", "/", "1", ",", " ", "c", "h", "a", "n", "g", "e", "d", " ", "s", "t", "a", "t", "e", " ", "t", "o", " ", "d", "o", "w", "n">>],
      [before |-> <<"r", "1", " ">>, facility |-> <<"O", "S", "P", "F">>, severity |-> 0, mnemonic |-> <<"A", "D", "J", "_", "C", "H", "G">>,
       message |-> <<"n", "b", "r">>],
      [before |-> <<>>, facility |-> <<"S", "Y", "S">>, severity |-> 7, mnemonic |-> <<"X">>, message |-> <<"y">>],
      [before |-> <<"s", "w", ":", " ">>, facility |-> <<"L", "I", "N", "K">>, severity |-> 3, mnemonic |-> <<"U", "P", "D", "O", "W", "N">>,
       message |-> <<"I", "n", "t", "e", "r", "f", "a", "c", "e", " ", "u", "p">>],
      [before |-> <<>>, facility |-> <<"P", "O", "R", "T", "_", "S", "E", "C", "U", "R", "I", "T", "Y">>, severity |-> 2, mnemonic |-> <<"V", "I", "O", "L", "A", "T", "I", "O", "N">>,
       message |-> <<"a", "t", " ", "1", "0", ":", "0", "0", ":", "0", "0">>] }

\* before%FACILITY-d-MNEMONIC: message
SimpleIosLine(l) ==
    l.before \o <<"%">> \o l.facility \o <<"-", Digits[l.severity + 1], "-">> \o l.mnemonic
        \o <<":", " ">> \o l.message

\* lines with nothing after the prefix a parser recognizes: a bare priority,
\* an RFC 5424 header that ends with the structured data, a bare token
EmptyBodyLines ==
    { <<"<", "3", "4", ">">>, <<"<", "1", "6", "5", ">", "1", " ", "2", "0", "0", "3", "-", "1", "0", "-", "1", "1", "T", "2", "2", ":", "1", "4", ":", "1", "5", "Z", " ", "h", " ", "a", "p", "p", " ", "1", " ", "I", "D", "4", "7", " ", "-">>, <<"%", "S", "Y", "S", "-", "5", "-", "R", "E", "S", "T", "A", "R", "T", ":">>, <<"<", "1", "3", ">", " ">> }

\* lines whose priority or Cisco severity is a run of digits that does not
\* fit a 32-bit int
LongNumberLines ==
    { <<"<", "9", "9", "9", "9", "9", "9", "9", "9", "9", "9", "9", ">", "x">>, <<"%", "S", "Y", "S", "-", "9", "9", "9", "9", "9", "9", "9", "9", "9", "9", "9", "-", "R", "E", "S", "T", "A", "R", "T", ":", " ", "x">>, <<"<", "2", "1", "4", "7", "4", "8", "3", "6", "4", "8", ">", "J", "a", "n", " ", "1", "5", " ", "1", "0", ":", "3", "0", ":", "4", "5", " ", "h", " ", "s", "u", ":", " ", "x">> }

LineMessages ==
    {Rfc3164Line(l) : l \in Rfc3164Lines} \cup {PriorityIosLine(l) : l \in PriorityIosLines}
        \cup {SimpleIosLine(l) : l \in SimpleIosLines} \cup EmptyBodyLines \cup LongNumberLines

NextLines ==
    \/ \E kind \in NativeParsers : MakeNativeParser(kind)
    \/ \E raw_message \in LineMessages : ParserParse(raw_message)
    \/ \E raw_message \in LineMessages : ParserCanParse(raw_message)

SpecLines == Init /\ [][NextLines]_vars

(***************************************************************************)
(* LogEntry through JSON and back                                          *)
(***************************************************************************)
\* the records given to to_json: the three time points on the two calendar
\* days, with every other field first at its default and then populated
JsonEntries ==
    LET populated == [ DefaultLogEntry EXCEPT
                         !.message = <<"I", "n", "t", "e", "r", "f", "a", "c", "e", " ", "u", "p">>, !.facility = <<"L", "I", "N", "K">>,
                         !.hostname = <<"r", "o", "u", "t", "e", "r", "1">>, !.process_name = <<"s", "s", "h", "d">>,
                         !.process_id = <<1234>>, !.raw_message = <<"%", "L", "I", "N", "K", "-", "3", "-", "U", "P", "D", "O", "W", "N", ":", " ", "I", "n", "t", "e", "r", "f", "a", "c", "e", " ", "u", "p">>,
                         !.metadata = [k \in {"mnemonic"} |-> <<"U", "P", "D", "O", "W", "N">>] ]
        partial == [ DefaultLogEntry EXCEPT !.message = <<"u", "p">>, !.process_id = <<0>> ]
    IN { [entry EXCEPT !.timestamp = FromTimeT(time), !.severity = severity_device[1],
                       !.device_type = severity_device[2]] :
           entry \in {DefaultLogEntry, partial, populated}, time \in {0, 37845, 86405},
           severity_device \in {<<Info, "Unknown">>, <<Critical, "CiscoIOSXE">>,
                                <<Emergency, "GenericSyslog">>} }

\* how far local time is ahead of UTC in the process, in seconds: UTC, Central
\* European Time and Eastern Standard Time
UtcOffsets == {0, 3600, -18000}

\* the values documents hold under "severity" and under "device_type"
JsonSeverityValues ==
    {JString(<<"w", "a", "r", "n", "i", "n", "g">>), JString(<<"b", "o", "g", "u", "s">>), JString(<<>>), JString(<<"9">>), JString(<<"2">>),
     JString(<<"3", "a", "b", "c">>), JNumber(3)}

JsonDeviceTypeValues ==
    {JString(<<"c", "i", "s", "c", "o", "-", "a", "s", "a">>), JString(<<"r", "o", "u", "t", "e", "r">>), JString(<<"C", "i", "s", "c", "o", "I", "O", "S">>), JNumber(1)}

\* the documents given to from_json: a written record with its severity and
\* device type replaced, with a key of another JSON type, and without keys
JsonDocuments ==
    LET written == to_json(CHOOSE entry \in JsonEntries :
                              /\ entry.hostname # <<>> /\ entry.severity = Critical
                              /\ entry.timestamp = FromTimeT(37845))
        without(json, keys) == [k \in DOMAIN json \ keys |-> json[k]]
    IN {[written EXCEPT !["severity"] = severity, !["device_type"] = device_type] :
           severity \in JsonSeverityValues, device_type \in JsonDeviceTypeValues}
       \cup {[written EXCEPT !["severity"] = JString(<<"b", "o", "g", "u", "s">>), !["message"] = JNumber(5)],
             [written EXCEPT !["device_type"] = JString(<<"r", "o", "u", "t", "e", "r">>), !["timestamp"] = JString(<<"y", "e", "s", "t", "e", "r", "d", "a", "y">>)],
             without(written, {"severity", "device_type"}),
             without([written EXCEPT !["severity"] = JString(<<"b", "o", "g", "u", "s">>)], {"message", "metadata"})}

\* LogEntry::from_json(entry.to_json())
JsonRoundTrip(entry, utc_offset) ==
    /\ ret' = [op |-> "json.round_trip", entry |-> entry, utc_offset |-> utc_offset,
               json |-> to_json(entry), r |-> from_json(to_json(entry), utc_offset)]
    /\ UNCHANGED <<engine, parser, registry, factory, lua_build, held, top, worker, tmbuf>>

\* LogEntry::from_json(json)
FromJson(json, utc_offset) ==
    /\ ret' = [op |-> "from_json", json |-> json, utc_offset |-> utc_offset,
               r |-> from_json(json, utc_offset)]
    /\ UNCHANGED <<engine, parser, registry, factory, lua_build, held, top, worker, tmbuf>>

NextJson ==
    \/ \E entry \in JsonEntries, utc_offset \in UtcOffsets : JsonRoundTrip(entry, utc_offset)
    \/ \E json \in JsonDocuments, utc_offset \in UtcOffsets : FromJson(json, utc_offset)

SpecJson == Init /\ [][NextJson]_vars

(***************************************************************************)
(* Claims about a LuaEngine used directly (SpecLua)                        *)
(***************************************************************************)
\* the outcome of running a script's top-level code in a state of its own
OwnRun(script_content) == RunChunk(script_content.stmts, 1, NewLuaState)

\* a load of this file fails at some stage: it cannot be opened, it does not
\* compile, its top-level code raises an error, or a required function is
\* missing from what it defines
FailsAtSomeStage(file) ==
    \/ ~file.is_open
    \/ ~file.content.syntax_ok
    \/ OwnRun(file.content).st # "ok"
    \/ \E i \in DOMAIN required_functions :
          ~lua_isfunction(OwnRun(file.content).G[required_functions[i]])

\* C1: a call to load_script or load_script_from_string that fails at any
\* stage returns false, leaves is_script_loaded() false and leaves a non-empty
\* get_last_error(), whatever state the engine was in
C1_FailedLoadLeavesUnloaded ==
    (ret.op \in {"load_script", "load_script_from_string"} /\ FailsAtSomeStage(ret.file))
        => /\ ret.r = FALSE
           /\ ~engine.script_loaded
           /\ engine.last_error # ""

\* C2: for a loaded script, parse returns a record exactly when the script's
\* parse function returns a table, and None when it returns nil or another
\* value or raises an error; an absent key or an unrecognized severity string
\* leaves the field at its default and never makes parse return None or throw
C2_ParseReturnsRecordIffTable ==
    (ret.op = "parse" /\ ret.loaded)
        => IF ret.script.st = "ok" /\ lua_istable(ret.script.v)
           THEN /\ ret.r.k = "entry"
                /\ \A key \in TextFields :
                      lua_isnil(lua_getfield(ret.script.v, key)) => ret.r.entry[key] = <<>>
                /\ lua_isnil(lua_getfield(ret.script.v, "process_id")) => ret.r.entry.process_id = <<>>
                /\ ( \/ lua_isnil(lua_getfield(ret.script.v, "severity"))
                     \/ /\ lua_getfield(ret.script.v, "severity").t = "string"
                        /\ ~parse_severity(lua_getfield(ret.script.v, "severity").s).ok )
                   => ret.r.entry.severity = Info
           ELSE ret.r = None

\* C3: can_parse returns true only when the script's can_parse function
\* returns the boolean true; an error, a non-boolean value or no loaded script
\* give false
C3_CanParseOnlyOnBooleanTrue ==
    ret.op = "can_parse"
        => /\ ret.r.ok
           /\ ret.r.v = (ret.loaded /\ ret.script = Returned(LBool(TRUE)))

\* C6: a load_script_from_string that follows a failed load succeeds only if
\* its own script defines the four required functions, and the functions the
\* engine then holds are those of that script alone
C6_NoLeftoverAfterFailedLoad ==
    [][ ( /\ ret.op \in {"load_script", "load_script_from_string"}
          /\ ret.r = FALSE
          /\ ret'.op = "load_script_from_string"
          /\ ret'.r = TRUE )
        => /\ ~FailsAtSomeStage(ret'.file)
           /\ engine'.G = OwnRun(ret'.file.content).G ]_vars

(***************************************************************************)
(* Claims about the host API (SpecHost)                                    *)
(***************************************************************************)
\* C9: netlog.parse_severity(text) returns, for any string, an integer in
\* 0..7: the level native parsing gives for a recognized text and 6 (Info) for
\* an unrecognized one; it raises no error and throws no exception
C9_HostParseSeverityTotal ==
    (ret.op = "host" /\ ret.fn = "parse_severity" /\ Len(ret.args) = 1 /\ ret.args[1].t = "string")
        => /\ ret.r.ok
           /\ ret.r.v.t = "number"
           /\ ret.r.v.n \in 0..7
           /\ ret.r.v.n = IF parse_severity(ret.args[1].s).ok
                          THEN parse_severity(ret.args[1].s).v ELSE Info

\* the canonical name of a device type, as the claim spells it
CanonicalName(type) ==
    CASE type = "CiscoIOS" -> <<"C", "i", "s", "c", "o", "I", "O", "S">>
      [] type = "CiscoIOSXE" -> <<"C", "i", "s", "c", "o", "I", "O", "S", "X", "E">>
      [] type = "CiscoNXOS" -> <<"C", "i", "s", "c", "o", "N", "X", "O", "S">>
      [] type = "CiscoASA" -> <<"C", "i", "s", "c", "o", "A", "S", "A">>
      [] type = "GenericSyslog" -> <<"G", "e", "n", "e", "r", "i", "c", "S", "y", "s", "l", "o", "g">>
      [] type = "Custom" -> <<"C", "u", "s", "t", "o", "m">>
      [] OTHER -> <<"U", "n", "k", "n", "o", "w", "n">>

\* C10: netlog.parse_device_type(text) returns the canonical name of the
\* device type that native parse_device_type gives for text, for each of the
\* seven device types, and "Unknown", without an error, for any other text
C10_HostParseDeviceTypeCanonical ==
    (ret.op = "host" /\ ret.fn = "parse_device_type" /\ Len(ret.args) = 1 /\ ret.args[1].t = "string")
        => /\ ret.r.ok
           /\ ret.r.v = LStr(CanonicalName(IF parse_device_type(ret.args[1].s).ok
                                           THEN parse_device_type(ret.args[1].s).v
                                           ELSE "Unknown"))

(***************************************************************************)
(* Claims about parsers behind the BaseParser interface (SpecParsers)      *)
(***************************************************************************)
\* C4: whenever parse of a native or scripted parser returns a record, the
\* record's raw_message is the input and its device_type is what the
\* parser's get_device_type() returns, whatever the content or the script's
\* table says
C4_RecordStampedByParser ==
    (ret.op = "parser.parse" /\ ret.r.k = "entry")
        => /\ ret.r.entry.raw_message = ret.raw_message
           /\ Ok(ret.r.entry.device_type) = parser_get_device_type(parser, lua_build)

\* a scripted parser has returned a record for a table that carries its own
\* raw_message and device_type
C4_Witness ==
    /\ ret.op = "parser.parse"
    /\ parser.kind = "LuaParser"
    /\ ret.r.k = "entry"
    /\ ret.script.st = "ok"
    /\ lua_getfield(ret.script.v, "raw_message") = LStr(<<"r">>)
    /\ lua_getfield(ret.script.v, "device_type") = LStr(<<"a", "s", "a">>)
    /\ ret.r.entry.device_type = "CiscoNXOS"
    /\ ret.r.entry.raw_message = <<"f", "u", "l", "l">>

\* a Lua number that is none of the levels 0..7
OutsideLevels(v) ==
    /\ v.t = "number"
    /\ IF IsFloat(v) THEN v.tenths < 0 \/ v.tenths > 70 ELSE v.n < 0 \/ v.n > 7

\* C5: every record a parser returns has a severity in 0..7, and no record is
\* returned for a script table whose severity is a number outside 0..7
C5_SeverityNumberOutsideRangeRejected ==
    (ret.op = "parser.parse" /\ ret.r.k = "entry")
        => /\ ret.r.entry.severity \in Severity
           /\ ~( /\ ret.script.st = "ok"
                 /\ lua_istable(ret.script.v)
                 /\ OutsideLevels(lua_getfield(ret.script.v, "severity")) )

(***************************************************************************)
(* Claims about the LuaParserRegistry (SpecRegistry)                       *)
(***************************************************************************)
\* the names of the registered engines whose can_parse is true
RegistryAcceptors(raw_message) ==
    {name \in DOMAIN registry : can_parse(registry[name], raw_message, lua_build) = Ok(TRUE)}

\* the registry of the ParserRegistry test: parser1 and parser2 under their own names
TwoParsers ==
    /\ DOMAIN registry = {<<"P", "a", "r", "s", "e", "r", "1">>, <<"P", "a", "r", "s", "e", "r", "2">>}
    /\ registry[<<"P", "a", "r", "s", "e", "r", "1">>] = load_script(NewLuaEngine, Files, PathParser1).e
    /\ registry[<<"P", "a", "r", "s", "e", "r", "2">>] = load_script(NewLuaEngine, Files, PathParser2).e

\* C8: find_parser_for_message returns null exactly when no registered
\* engine's can_parse is true and otherwise a registered engine whose
\* can_parse is true; with parser1 (accepting "IOS") and parser2 (accepting
\* "NXOS") registered, each message goes to the script that accepts it and an
\* unrelated message gets no parser
C8_FindReturnsAnAcceptingEngine ==
    ret.op = "find_parser_for_message"
        => /\ (ret.r = Null) <=> (RegistryAcceptors(ret.raw_message) = {})
           /\ ret.r # Null => (ret.r.k = "engine" /\ ret.r.name \in RegistryAcceptors(ret.raw_message))
           /\ TwoParsers =>
                 /\ ret.raw_message = MsgIOS => ret.r = [k |-> "engine", name |-> <<"P", "a", "r", "s", "e", "r", "1">>]
                 /\ ret.raw_message = MsgNXOS => ret.r = [k |-> "engine", name |-> <<"P", "a", "r", "s", "e", "r", "2">>]
                 /\ ret.raw_message = MsgOther => ret.r = Null

\* with both parsers registered, the NXOS message has been routed to parser2
C8_Witness ==
    /\ ret.op = "find_parser_for_message"
    /\ TwoParsers
    /\ ret.raw_message = MsgNXOS
    /\ ret.r = [k |-> "engine", name |-> <<"P", "a", "r", "s", "e", "r", "2">>]

(***************************************************************************)
(* Claims about the ParserFactory (SpecFactory)                            *)
(***************************************************************************)
CiscoFamily == {"CiscoIOS", "CiscoIOSXE", "CiscoNXOS", "CiscoASA"}

\* the tier of a device type, as the claim gives it
Tier(device_type) ==
    IF device_type \in CiscoFamily THEN 3 ELSE IF device_type = "GenericSyslog" THEN 1 ELSE 2

\* the registered device types whose creator makes a parser that accepts
FactoryAcceptors(raw_message) ==
    {device_type \in DOMAIN factory :
        /\ Create(factory[device_type], Files) # Null
        /\ parser_can_parse(Create(factory[device_type], Files), raw_message, lua_build) = Ok(TRUE)}

\* C7: auto_detect_parser returns null exactly when no registered creator
\* makes a parser that accepts the message; otherwise it returns the parser of
\* a registered device type that accepts and whose tier (Cisco family 3,
\* GenericSyslog 1, any other 2) is the highest among the accepting types, so
\* a Cisco parser wins over the generic one when both accept
C7_AutoDetectReturnsHighestTier ==
    ret.op = "auto_detect_parser"
        => /\ (ret.r = Null) <=> (FactoryAcceptors(ret.raw_message) = {})
           /\ ret.r # Null =>
                 /\ ret.r.device_type \in FactoryAcceptors(ret.raw_message)
                 /\ ret.r.parser = Create(factory[ret.r.device_type], Files)
                 /\ \A other \in FactoryAcceptors(ret.raw_message) :
                       Tier(other) <= Tier(ret.r.device_type)
                 /\ ( /\ FactoryAcceptors(ret.raw_message) \cap CiscoFamily # {}
                      /\ "GenericSyslog" \in FactoryAcceptors(ret.raw_message) )
                       => ret.r.device_type \in CiscoFamily

\* a Cisco parser and the generic parser both accept, and a Cisco parser is returned
C7_Witness ==
    /\ ret.op = "auto_detect_parser"
    /\ "GenericSyslog" \in FactoryAcceptors(ret.raw_message)
    /\ FactoryAcceptors(ret.raw_message) \cap CiscoFamily # {}
    /\ ret.r # Null
    /\ ret.r.device_type \in CiscoFamily

(***************************************************************************)
(* Claims about the scripted device type (SpecLua)                         *)
(***************************************************************************)
\* the device types whose canonical name netlog.parse_device_type hands out
HandedOut == {"CiscoIOS", "CiscoNXOS", "CiscoASA", "GenericSyslog", "Unknown"}

\* C11: when the loaded script's get_device_type() returns one of the
\* canonical names CiscoIOS, CiscoNXOS, CiscoASA, GenericSyslog or Unknown,
\* LuaEngine::get_device_type() returns that device type and does not throw
C11_CanonicalNameGivesItsDeviceType ==
    (ret.op = "get_device_type" /\ engine.script_loaded)
        => \A device_type \in HandedOut :
              lua_pcall(engine.G, "get_device_type", <<>>, lua_build) = Returned(LStr(CanonicalName(device_type)))
                  => ret.r = Ok(device_type)

(***************************************************************************)
(* Claims about the last error of a LuaEngine (SpecLua)                    *)
(***************************************************************************)
\* the messages LuaEngine::parse records when the script's parse fails
ParseFailureMessages == {"Script parse function failed: ", "Parse function must return a table or nil"}

\* the script's parse raised an error or returned a value that is neither a
\* table nor nil
ScriptParseFailed(script) ==
    \/ script.st = "error"
    \/ script.st = "ok" /\ ~lua_isnil(script.v) /\ ~lua_istable(script.v)

\* C12: when parse on a loaded script returns None, get_last_error() holds a
\* parse-failure message exactly when the script raised an error or returned
\* a non-table non-nil value in that call; after a None from a nil result no
\* message of an earlier load or parse is shown
C12_LastErrorTellsWhetherThisParseFailed ==
    (ret.op = "parse" /\ ret.loaded /\ ret.r = None)
        => /\ (engine.last_error \in ParseFailureMessages) <=> ScriptParseFailed(ret.script)
           /\ ~ScriptParseFailed(ret.script) => engine.last_error = ""

(***************************************************************************)
(* Claims about the native conversions (SpecText)                          *)
(***************************************************************************)
\* the texts the claim lets parse_severity accept: a name or an abbreviation
\* in any letter case, or one digit 0..7
StrictSeverityText(text) ==
    \/ \E i \in DOMAIN SeverityNames : SeverityNames[i].name = ToLower(text)
    \/ text \in {<<Digits[n + 1]>> : n \in 0..7}

\* the texts the claim lets parse_device_type accept: a listed name or alias
\* in any letter case
StrictDeviceTypeText(text) ==
    \E i \in DOMAIN DeviceTypeNames : DeviceTypeNames[i].name = ToLower(text)

\* C13: parse_severity and parse_device_type return a value only for their
\* listed names, abbreviations and aliases in any letter case (and "0".."7"
\* for the severity); every other text raises an error
C13_NativeStringParsersAreStrict ==
    /\ ret.op = "parse_severity" => (ret.r.ok <=> StrictSeverityText(ret.text))
    /\ ret.op = "parse_device_type" => (ret.r.ok <=> StrictDeviceTypeText(ret.text))

\* C14: parse_severity(to_string(s)) = s for each of the eight severities and
\* parse_device_type(to_string(d)) = d for each of the seven device types
C14_TaxonomyTextRoundTrips ==
    /\ ret.op = "severity.round_trip" => ret.r = Ok(ret.severity)
    /\ ret.op = "device_type.round_trip" => ret.r = Ok(ret.device_type)

\* the round trip of CiscoNXOS through "cisco-nx-os" has been made
C14_Witness ==
    /\ ret.op = "device_type.round_trip"
    /\ ret.device_type = "CiscoNXOS"
    /\ ret.text = <<"c", "i", "s", "c", "o", "-", "n", "x", "-", "o", "s">>
    /\ ret.r = Ok("CiscoNXOS")

(***************************************************************************)
(* Claims about LogEntry as JSON (SpecJson)                                *)
(***************************************************************************)
\* C15: from_json(r.to_json()) is r again, field by field as operator==
\* compares them: every populated field is preserved, every empty optional
\* field stays empty, and a time point with whole seconds comes back as the
\* same time point whatever the local time zone of the process
C15_JsonRoundTripPreservesRecord ==
    ret.op = "json.round_trip" => ret.r = Ok(ret.entry)

\* the document without the given keys
WithoutKeys(json, keys) == [k \in DOMAIN json \ keys |-> json[k]]

\* the level a "severity" value stands for, if it is a text parse_severity
\* knows, and Info otherwise
KnownLevelOrInfo(json) ==
    IF "severity" \in DOMAIN json /\ json["severity"].t = "string"
          /\ parse_severity(json["severity"].s).ok
    THEN parse_severity(json["severity"].s).v ELSE Info

\* the type a "device_type" value stands for, if it is a text
\* parse_device_type knows, and Unknown otherwise
KnownTypeOrUnknown(json) ==
    IF "device_type" \in DOMAIN json /\ json["device_type"].t = "string"
          /\ parse_device_type(json["device_type"].s).ok
    THEN parse_device_type(json["device_type"].s).v ELSE "Unknown"

\* C16: from_json never fails because of the value under "severity" or
\* "device_type": whenever the document without these two keys decodes, the
\* document decodes too, to the same record but for severity and device type;
\* a severity that is not a known level gives Info and a device type that is
\* not a known type gives Unknown
C16_UnknownSeverityAndTypeFallBack ==
    LET rest(json) == from_json(WithoutKeys(json, {"severity", "device_type"}), ret.utc_offset)
        same(decoded) == ret.r = Ok([decoded EXCEPT !.severity = KnownLevelOrInfo(ret.json),
                                                    !.device_type = KnownTypeOrUnknown(ret.json)])
        holds(decoded) == decoded.ok => same(decoded.v)
    IN ret.op = "from_json" => holds(rest(ret.json))

C16_Witness ==
    /\ ret.op = "from_json"
    /\ {"severity", "device_type", "metadata"} \subseteq DOMAIN ret.json
    /\ ret.json["severity"] = JString(<<"b", "o", "g", "u", "s">>)
    /\ ret.json["device_type"] = JString(<<"r", "o", "u", "t", "e", "r">>)
    /\ ret.r.ok
    /\ ret.r.v.severity = Info /\ ret.r.v.device_type = "Unknown"
    /\ ret.r.v.hostname = <<"r", "o", "u", "t", "e", "r", "1">> /\ ret.r.v.process_id = <<1234>>
    /\ ret.r.v.metadata["mnemonic"] = <<"U", "P", "D", "O", "W", "N">>

(***************************************************************************)
(* Claims about batches (SpecBatch)                                        *)
(***************************************************************************)
RECURSIVE SequentialParse(_, _, _, _)
\* what the calls p.parse(raws[i]), p.parse(raws[i + 1]), ... give, made one
\* after the other on the same parser
SequentialParse(p, raws, i, build) ==
    LET then(x) == <<x.r>> \o SequentialParse(x.p, raws, i + 1, build)
    IN IF i > Len(raws) THEN <<>> ELSE then(parser_parse(p, raws[i], build))

\* C17: parse_batch(raws) is what applying parse to each element of raws in
\* order gives, with the records of the calls that returned one kept in the
\* same order: as many records as there are inputs parse succeeded on, never
\* more than there are inputs; an exception leaving one of the parse calls
\* leaves parse_batch as well
C17_ParseBatchIsSequentialParse ==
    LET agrees(calls) ==
            LET succeeded == {i \in DOMAIN calls : calls[i] \notin {None, Thrown}}
                records == [k \in DOMAIN SelectSeq(calls, LAMBDA r : r \notin {None, Thrown}) |->
                               SelectSeq(calls, LAMBDA r : r \notin {None, Thrown})[k].entry]
            IN IF \E i \in DOMAIN calls : calls[i] = Thrown THEN ~ret.r.ok
               ELSE /\ ret.r = Ok(records)
                    /\ Len(ret.r.v) = Cardinality(succeeded)
                    /\ Len(ret.r.v) <= Len(ret.raw_messages)
    IN ret.op = "parser.parse_batch"
           => agrees(SequentialParse(ret.p, ret.raw_messages, 1, lua_build))

C17_Witness ==
    /\ ret.op = "parser.parse_batch"
    /\ ret.raw_messages = <<<<"n", "i", "l">>, <<"f", "u", "l", "l">>, <<"e", "r", "r">>, <<"c", "o", "e", "r", "c", "e">>>>
    /\ ret.r.ok
    /\ Len(ret.r.v) = 2
    /\ ret.r.v[1].hostname = <<"h">> /\ ret.r.v[2].process_id = <<12>>

(***************************************************************************)
(* Claims about the native parsers line by line (SpecLines)                *)
(***************************************************************************)
\* C18: for an RFC 3164 line <P>timestamp hostname tag[pid]: message the
\* generic syslog parser returns a record with metadata facility_code = P >> 3
\* as decimal text, severity = the level numbered P & 7, hostname = the
\* hostname token and process_name = the tag without its bracketed pid
C18_Rfc3164LineFields ==
    (ret.op = "parser.parse" /\ parser.kind = "GenericSyslogParser")
        => \A l \in Rfc3164Lines :
              ret.raw_message = Rfc3164Line(l)
                  => /\ ret.r.k = "entry"
                     /\ ret.r.entry.metadata["facility_code"] = IntToString(l.priority \div 8)
                     /\ ret.r.entry.severity = l.priority % 8
                     /\ ret.r.entry.hostname = l.hostname
                     /\ ret.r.entry.process_name = l.tag

\* C19: for a priority-prefixed Cisco IOS line
\* <priority>timestamp: %FACILITY-severity-MNEMONIC: message, the timestamps of
\* the layout "Mon D HH:MM:SS" included, the Cisco IOS parser returns a record
\* whose severity is the level of the Cisco severity digit and whose metadata
\* holds mnemonic, cisco_severity and syslog_priority, the last being the text
\* between < and >
C19_PriorityFormKeepsSyslogPriority ==
    (ret.op = "parser.parse" /\ parser.kind = "CiscoIOSParser")
        => \A l \in PriorityIosLines :
              ret.raw_message = PriorityIosLine(l)
                  => /\ ret.r.k = "entry"
                     /\ ret.r.entry.severity = l.severity
                     /\ {"mnemonic", "cisco_severity", "syslog_priority"}
                            \subseteq DOMAIN ret.r.entry.metadata
                     /\ ret.r.entry.metadata["syslog_priority"] = l.priority

\* C20: for a line with a token %FACILITY-d-MNEMONIC: and no timestamp before
\* it, can_parse of the Cisco IOS parser is true and parse returns a record
\* with facility = FACILITY, severity = the level numbered d, and metadata
\* mnemonic = MNEMONIC and cisco_severity = d
C20_SimpleFormFields ==
    parser.kind = "CiscoIOSParser"
        => \A l \in SimpleIosLines :
              /\ (ret.op = "parser.can_parse" /\ ret.raw_message = SimpleIosLine(l))
                     => ret.r = Ok(TRUE)
              /\ (ret.op = "parser.parse" /\ ret.raw_message = SimpleIosLine(l))
                     => /\ ret.r.k = "entry"
                        /\ ret.r.entry.facility = l.facility
                        /\ ret.r.entry.severity = l.severity
                        /\ ret.r.entry.metadata["mnemonic"] = l.mnemonic
                        /\ ret.r.entry.metadata["cisco_severity"] = <<Digits[l.severity + 1]>>

C20_Witness ==
    /\ parser.kind = "CiscoIOSParser"
    /\ ret.op = "parser.parse"
    /\ ret.raw_message = <<"%", "L", "I", "N", "E", "P", "R", "O", "T", "O", "-", "5", "-", "U", "P", "D", "O", "W", "N", ":", " ", "L", "i", "n", "e", " ", "p", "r", "o", "t", "o", "c", "o", "l", " ", "o", "n", " ", "I", "n", "t", "e", "r", "f", "a", "c", "e", " ", "G", "i", "g", "a", "b", "i", "t", "E", "t", "h", "e", "r", "n", "e", "t", "0", "/", "1", ",", " ", "c", "h", "a", "n", "g", "e", "d", " ", "s", "t", "a", "t", "e", " ", "t", "o", " ", "d", "o", "w", "n">>
    /\ ret.r.k = "entry"
    /\ ret.r.entry.facility = <<"L", "I", "N", "E", "P", "R", "O", "T", "O">>
    /\ ret.r.entry.severity = Notice
    /\ ret.r.entry.metadata["mnemonic"] = <<"U", "P", "D", "O", "W", "N">>

(***************************************************************************)
(* Claims about a reloaded scripted parser (SpecReload)                    *)
(***************************************************************************)
\* the parser constructed anew from the path or the inline text p was made of
FreshParser(p) ==
    IF p.is_from_file_ THEN LuaParserFromFile(Files, p.script_path_)
    ELSE LuaParserFromString(p.script_content_, p.script_name_)

\* C21: after reload_script() on a LuaParser in any state, is_valid() is the
\* value reload_script() returned, the globals of the interpreter are those of
\* a parser freshly constructed from the same path or inline text (none
\* defined or changed by the previous load is left), and parse, can_parse and
\* get_device_type answer as those of the fresh parser
C21_ReloadIsFreshLoad ==
    LET alike(fresh) ==
            /\ parser.lua_engine_.G = fresh.lua_engine_.G
            /\ is_valid(parser) = is_valid(fresh)
            /\ \A raw_message \in ParseMessages :
                  lua_parser_parse(parser, raw_message, lua_build).r
                      = lua_parser_parse(fresh, raw_message, lua_build).r
            /\ \A raw_message \in CanParseMessages :
                  lua_parser_can_parse(parser, raw_message, lua_build)
                      = lua_parser_can_parse(fresh, raw_message, lua_build)
            /\ lua_parser_get_device_type(parser, lua_build)
                   = lua_parser_get_device_type(fresh, lua_build)
    IN ret.op = "reload_script" => (is_valid(parser) = ret.r /\ alike(FreshParser(parser)))

C21_Witness ==
    /\ ret.op = "reload_script"
    /\ ret.r = TRUE
    /\ parser.script_content_ = ScriptOnce
    /\ is_valid(parser)
    /\ lua_parser_parse(parser, MsgIOS, lua_build).r # None

(***************************************************************************)
(* Claims about registrations with the factory (SpecRegistration)          *)
(***************************************************************************)
\* C22: register_parser(d, creator) returns false and leaves the factory as it
\* is when d is registered already, the built-in types included; it returns
\* true and makes d supported only when d was not registered; so the creator
\* of a registered type changes in no single step
C22_RegisterKeepsTheRegisteredCreator ==
    [][ /\ ret'.op = "factory.register_parser"
            => /\ ret'.r = ~is_supported(factory, ret'.device_type)
               /\ is_supported(factory, ret'.device_type) => factory' = factory
               /\ ~is_supported(factory, ret'.device_type)
                      => /\ is_supported(factory', ret'.device_type)
                         /\ factory'[ret'.device_type] = ret'.creator
                         /\ \A d \in DOMAIN factory : factory'[d] = factory[d]
        /\ \A d \in DOMAIN factory \cap DOMAIN factory' : factory'[d] = factory[d] ]_vars

C22_Witness ==
    /\ ret.op = "factory.register_parser"
    /\ ret.device_type = "CiscoIOS"
    /\ ret.creator = LuaCreator(PathParser1)
    /\ ret.r = FALSE
    /\ factory = register_builtin_parsers

(***************************************************************************)
(* Claims about a registry filled from directories (SpecDirectory)         *)
(***************************************************************************)
\* C23: register_parser for a script that loads, under a name the registry
\* holds already (the explicit parser_name or the script's own
\* get_parser_name()), returns true, leaves size() as it was and makes
\* get_parser(name) give the newly loaded engine, the other entries staying
\* as they were; hence load_parsers_from_directory returns a count that is at
\* least, and not always equal to, the growth of size()
C23_RegisterReplacesSilently ==
    [][ /\ ret'.op = "register_parser"
            => LET replaced(x, name) ==
                       (x.r /\ name \in DOMAIN registry)
                           => /\ ret'.r
                              /\ Cardinality(DOMAIN registry') = Cardinality(DOMAIN registry)
                              /\ get_parser(registry', name) = [k |-> "engine", name |-> name]
                              /\ registry'[name] = x.e
                              /\ \A other \in DOMAIN registry \ {name} :
                                    registry'[other] = registry[other]
                   registers(x) ==
                       replaced(x, IF ret'.parser_name # <<>> THEN ret'.parser_name
                                   ELSE get_parser_name(x.e, lua_build).v)
               IN registers(load_script(NewLuaEngine, Files, ret'.script_path))
        /\ ret'.op = "load_parsers_from_directory"
            => /\ ret'.r.ok
               /\ Cardinality(DOMAIN registry') - Cardinality(DOMAIN registry) <= ret'.r.v ]_vars

C23_Witness ==
    /\ ret.op = "load_parsers_from_directory"
    /\ ret.r = Ok(3)
    /\ DOMAIN registry = {<<"P", "a", "r", "s", "e", "r", "1">>, <<"P", "a", "r", "s", "e", "r", "2">>}
    /\ registry[<<"P", "a", "r", "s", "e", "r", "1">>].script_name \in {<<"p", "a", "r", "s", "e", "r", "1", ".", "n", "l", "p">>, <<"c", "o", "p", "y", "1", ".", "n", "l", "p">>}

(***************************************************************************)
(* Claims about the engines a registry hands out (SpecPointers)            *)
(***************************************************************************)
\* C24: a LuaEngine pointer that get_parser or find_parser_for_message
\* returned refers to a live engine as long as the caller has not called
\* unregister_parser for its name or clear(): no register_parser or
\* load_parsers_from_directory call destroys an engine a caller still holds
C24_HeldEnginesStayLive ==
    \A pointer \in held : pointer.live

(***************************************************************************)
(* Claims about the parsers the factory creates (SpecFactory)              *)
(***************************************************************************)
\* C25: in the factory as its constructor leaves it, create_parser(d) returns
\* for every supported device type d a parser whose get_device_type() is d,
\* and a null pointer for every other d
C25_CreatedParserHasItsDeviceType ==
    (ret.op = "create_parser" /\ factory = register_builtin_parsers)
        => IF is_supported(factory, ret.device_type)
           THEN /\ ret.r # Null
                /\ parser_get_device_type(ret.r, lua_build) = Ok(ret.device_type)
           ELSE ret.r = Null

(***************************************************************************)
(* Two threads that parse, each on its own LuaEngine, with a script whose  *)
(* parse function calls netlog.parse_timestamp.  A thread's steps are the  *)
(* accesses of TimestampParser::parse to memory that outlives the call.    *)
(***************************************************************************)
\* the texts the scripts hand to netlog.parse_timestamp
TimestampTexts ==
    { <<"2", "0", "2", "4", "-", "0", "1", "-", "1", "5", " ", "1", "0", ":", "3", "0", ":", "4", "5">>, <<"2", "0", "2", "4", "-", "0", "1", "-", "1", "5", "T", "1", "0", ":", "3", "0", ":", "4", "5", "Z">>, <<"J", "a", "n", " ", "1", "5", " ", "1", "0", ":", "3", "0", ":", "4", "5">>, <<"J", "a", "n", " ", "1", "5", " ", "2", "0", "2", "4", " ", "1", "0", ":", "3", "0", ":", "4", "5">>,
      <<"1", "0", ":", "3", "0", ":", "4", "5">>, <<"*", "J", "a", "n", " ", "1", "5", " ", "1", "0", ":", "3", "0", ":", "4", "5", ".", "1", "2", "3">>, <<"g", "a", "r", "b", "a", "g", "e">>, <<>> }

\* the years the clock can show while the threads run
Years == {2026, 2027}

\* a time made by std::mktime from the tm a format has filled
FromTm(tm_year, clean_str) == [now |-> FALSE, tm_year |-> tm_year, text |-> clean_str]

\* LuaEngine::parse of thread t up to the call of TimestampParser::parse: the
\* script reads its argument from the stack of the thread's own Lua state
CallParseTimestamp(t, timestamp_str) ==
    /\ worker[t].pc = "idle"
    /\ worker' = [worker EXCEPT ![t] =
                     [Idle EXCEPT !.pc = IF timestamp_str = <<>> THEN "return" ELSE "format",
                                  !.timestamp_str = timestamp_str,
                                  !.clean_str = CleanTimestamp(timestamp_str),
                                  !.i = 1,
                                  !.reads = {LuaStateOf(t)},
                                  !.writes = {LuaStateOf(t)}]]
    /\ UNCHANGED <<engine, parser, registry, factory, lua_build, held, top, tmbuf, ret>>

\* one round of the loops of TimestampParser::parse over the custom and the
\* default formats: parse_with_format up to the test of tm.tm_year
TryFormat(t) ==
    LET formats == custom_formats_ \o default_formats_
        w == worker[t]
        read == [w EXCEPT !.reads = @ \cup FormatLists]
        tried(tm) ==
            IF ~tm.ok THEN [read EXCEPT !.i = @ + 1]
            ELSE IF tm.tm_year = 0 THEN [read EXCEPT !.pc = "localtime"]
            ELSE [read EXCEPT !.pc = "return", !.tm_year = tm.tm_year,
                              !.r = FromTm(tm.tm_year, w.clean_str)]
    IN /\ w.pc = "format"
       /\ worker' = [worker EXCEPT ![t] =
                        IF w.i > Len(formats) THEN [read EXCEPT !.pc = "return", !.r = Now]
                        ELSE tried(GetTime(w.clean_str, formats[w.i]))]
       /\ UNCHANGED <<engine, parser, registry, factory, lua_build, held, top, tmbuf, ret>>

\* std::localtime(&now_time_t) of parse_with_format: the library fills its one
\* struct tm and returns its address
Localtime(t, now_year) ==
    /\ worker[t].pc = "localtime"
    /\ tmbuf' = [tm_year |-> now_year - 1900]
    /\ worker' = [worker EXCEPT ![t].pc = "tm_year", ![t].writes = @ \cup {LocaltimeBuffer}]
    /\ UNCHANGED <<engine, parser, registry, factory, lua_build, held, top, ret>>

\* tm.tm_year = now_tm->tm_year and std::mktime: the year is the one found in
\* the struct tm of the library, whichever thread filled it last
ReadTmYear(t) ==
    /\ worker[t].pc = "tm_year"
    /\ worker' = [worker EXCEPT ![t].pc = "return",
                                ![t].reads = @ \cup {LocaltimeBuffer},
                                ![t].tm_year = tmbuf.tm_year,
                                ![t].r = FromTm(tmbuf.tm_year, worker[t].clean_str)]
    /\ UNCHANGED <<engine, parser, registry, factory, lua_build, held, top, tmbuf, ret>>

\* lua_parse_timestamp pushes the time and the parse of thread t ends
ReturnTimestamp(t) ==
    /\ worker[t].pc = "return"
    /\ ret' = [op |-> "parse_timestamp", thread |-> t, timestamp_str |-> worker[t].timestamp_str,
               r |-> worker[t].r]
    /\ worker' = [worker EXCEPT ![t] = Idle]
    /\ UNCHANGED <<engine, parser, registry, factory, lua_build, held, top, tmbuf>>

NextThreads ==
    \/ \E t \in Workers, timestamp_str \in TimestampTexts : CallParseTimestamp(t, timestamp_str)
    \/ \E t \in Workers : TryFormat(t)
    \/ \E t \in Workers, now_year \in Years : Localtime(t, now_year)
    \/ \E t \in Workers : ReadTmYear(t)
    \/ \E t \in Workers : ReturnTimestamp(t)

SpecThreads == Init /\ [][NextThreads]_vars

(***************************************************************************)
(* Claims about what the native parsers return (SpecLines)                 *)
(***************************************************************************)
\* C26: every record a native parser's parse returns satisfies is_valid(),
\* that is, has a message that is not empty, also for a line with nothing
\* after the prefix the parser recognizes
C26_NativeRecordsAreValid ==
    (ret.op = "parser.parse" /\ ret.r.k = "entry") => is_valid_entry(ret.r.entry)

\* C27: parse of the generic syslog parser and of the Cisco IOS parser ends by
\* returning no record or a record and never by an exception, also when the
\* priority or the Cisco severity is a run of digits that does not fit a
\* 32-bit int
C27_NativeParseNeverThrows ==
    (ret.op = "parser.parse" /\ parser.kind \in {"GenericSyslogParser", "CiscoIOSParser"})
        => ret.r.k # Thrown.k

\* C30: when parse of the Cisco IOS parser succeeds through the simple grammar
\* on a line with %FACILITY-severity-MNEMONIC: followed by text, the record's
\* message is the text after the colon of the token without the white space
\* around it, with neither the colon nor a character of the token in it
C30_SimpleFormMessageIsTheTextAfterTheToken ==
    (ret.op = "parser.parse" /\ parser.kind = "CiscoIOSParser")
        => \A l \in SimpleIosLines :
              ret.raw_message = SimpleIosLine(l)
                  => (ret.r.k = "entry" /\ ret.r.entry.message = l.message)

(***************************************************************************)
(* Claims about the value stack of a LuaEngine (SpecLua)                   *)
(***************************************************************************)
LuaEngineOperations ==
    {"load_script_from_string", "parse", "can_parse", "get_device_type", "get_parser_name",
     "get_version", "get_supported_patterns"}

\* C28: every public operation of a LuaEngine leaves the value stack of its
\* Lua state at the depth it had when the operation started, on every path
\* out of the operation, so that the depth does not grow with the calls
C28_OperationsKeepTheStackDepth ==
    [][ret'.op \in LuaEngineOperations => top' = top]_vars

(***************************************************************************)
(* Claims about threads with a LuaEngine each (SpecThreads)                *)
(***************************************************************************)
\* C29: while two threads are in parse, each on its own LuaEngine, with
\* scripts that call netlog.parse_timestamp, neither reads or writes a memory
\* location the other writes: not the Lua states, not the format lists of
\* TimestampParser, not the buffers of the calendar functions
C29_WorkersShareNoWrittenLocation ==
    \A t1 \in Workers, t2 \in Workers :
        t1 # t2 => worker[t1].writes \cap (worker[t2].reads \cup worker[t2].writes) = {}
=============================================================================
